---- MODULE Spec2Model ----
(***************************************************************************)
(* Model of the tile cache (backend/ccitbxws/cache.py) and of the tiled    *)
(* images that memoize their tiles in it (backend/ccitbxws/image.py).      *)
(*                                                                         *)
(* Two Cache objects exist: "C", constructed with parent_cache = "P", and  *)
(* "P", constructed without a parent.  Every handler is one action.  The   *)
(* handlers call one another (put_value -> trim -> get_value,              *)
(* remove_value, parent put_value ...), so each is written as an operator  *)
(* from a heap h (the caches and the clock) to the heap it leaves.         *)
(*                                                                         *)
(* time.clock() is read once per Item.access(); a reading is taken to be   *)
(* larger than every earlier reading.                                      *)
(***************************************************************************)
EXTENDS Integers, Sequences, FiniteSets, TLC

\* ------------------------------------------------------------- bounds
\* the scripted LRU scenario runs on caches of capacity 2..MaxKeys
MaxKeys == 3
\* an operation starts only while the clock reading is below MaxClock
MaxClock == 3
\* an image operation starts only while the clock reading is below MaxTileClock
MaxTileClock == 4
\* sizes the tile store reports for the payloads that are put: 1..MaxBytes
MaxBytes == 2
\* capacities a cache is constructed with: 1..MaxCapacity
MaxCapacity == 2
\* the store call of a put_value or remove_value that raises: 1..MaxFaults
MaxFaults == 5
\* the threads that call one cache: 1..MaxThreads
MaxThreads == 2
\* the total sizes compute_tile_size is called with: 0..MaxTotal
MaxTotal == 12
\* the tile size limits compute_tile_size is called with: 1..MaxTile
MaxTile == 12
\* the widths and heights of the images a pyramid is built from: 1..MaxSide
MaxSide == 6
\* the tile widths and heights of those images: 1..MaxTileSide
MaxTileSide == 2
\* the capacity of the caches that are trimmed directly
MaxTrimCapacity == 3
\* a call on those caches starts only while the clock reading is below MaxTrimClock
MaxTrimClock == 5
\* the tile widths and heights of a downsampled ndarray image: 1..MaxPixels
MaxPixels == 4
\* the tile counts of its source image per axis: 1..MaxGrid
MaxGrid == 4
\* get_tile calls of one thread
MaxTileCalls == 1

\* ------------------------------------------------------------- values
\* A cached value: tag names the object, nbytes is what the tile store
\* measures.  None is Python's None; the cache only ever tests a value's
\* truth, so None stands for every falsy value (None, 0, '', b'').
None == [tag |-> "None", nbytes |-> 1]
Payload(t, n) == [tag |-> t, nbytes |-> n]
Truthy(value) == value.tag # "None"

Keys == {"a", "b", "c"}
Values == {None} \cup {Payload("v", n) : n \in 1..MaxBytes}

\* ------------------------------------------------------------- stores
MemorySize(value) == 1
TileSize(value) == value.nbytes

store_value(store, key, value) ==
    IF store = "MemoryCacheStore"
    THEN <<value, MemorySize(value)>>
    ELSE <<value, TileSize(value)>>

restore_valueMut(store, key, stored_value) == None
restore_value(store, key, stored_value) == stored_value

Stores == {"MemoryCacheStore", "MemoryTileCacheStore"}

\* ------------------------------------------------------------- policies
Policies == {"LRU", "MRU", "LFU", "RR"}

PolicyKeyMut(policy, item) ==
    CASE policy = "LRU" -> 0 - item.access_time
      [] policy = "MRU" -> item.access_time
      [] policy = "LFU" -> 0 - item.access_count
      [] OTHER -> (item.access_count + 1) % 2
PolicyKey(policy, item) ==
    CASE policy = "LRU" -> item.access_time
      [] policy = "MRU" -> 0 - item.access_time
      [] policy = "LFU" -> item.access_count
      [] OTHER -> item.access_count % 2

\* ------------------------------------------------------------- state
VARIABLES
    cache,    \* cache[c]: _item_dict, _item_list and _size of Cache c
    clock,    \* the next reading of time.clock() - _T0
    cfg,      \* cfg[c]: the constructor arguments of Cache c
    last,     \* the last completed call: its arguments and what it returned
    script,   \* the scenario a scripted client runs and how far it has come
    images,   \* the tiled images that were constructed
    pyramid,  \* the level images of the ImagePyramid, level 0 first
    size0,    \* size0[i]: the tile cache's size before image i was first fetched
    lock,     \* lock[c]: the thread that owns the RLock of Cache c
    thread,   \* thread[t]: the call thread t is in and how far it has come
    calc      \* the call of a layout function: its arguments and its result

CacheIds == {"C", "P"}
NoParent == "none"
NoExc == "none"

parent_cache(c) == IF c = "C" THEN "P" ELSE NoParent

\* thresholds are quarters: 3 is 0.75 (the default), 4 is 1.0
ThresholdDen == 4
Thresholds == {3, 4}

\* self._size + x > self._max_size, with _max_size = capacity * threshold
ExceedsMut(config, c, size) == size * ThresholdDen > (config[c].capacity + 1) * config[c].threshold
Exceeds(config, c, size) == size * ThresholdDen > config[c].capacity * config[c].threshold

EmptyCache == [item_dict |-> <<>>, item_list |-> <<>>, size |-> 0]

NewItem == [key |-> "", stored_value |-> None, stored_size |-> 0,
            creation_time |-> 0, access_time |-> 0, access_count |-> 0]

\* ------------------------------------------------------------- sequences
RECURSIVE RemoveFirst(_, _)
RemoveFirst(s, x) ==
    IF s = <<>> THEN <<>>
    ELSE IF Head(s) = x THEN Tail(s)
    ELSE <<Head(s)>> \o RemoveFirst(Tail(s), x)

\* list.sort(key=...): ascending and stable
RECURSIVE InsertSorted(_, _, _)
InsertSorted(policy, sorted, item) ==
    IF sorted = <<>> THEN <<item>>
    ELSE IF PolicyKey(policy, item) < PolicyKey(policy, Head(sorted))
         THEN <<item>> \o sorted
         ELSE <<Head(sorted)>> \o InsertSorted(policy, Tail(sorted), item)

RECURSIVE SortItems(_, _)
SortItems(policy, list) ==
    IF list = <<>> THEN <<>>
    ELSE InsertSorted(policy, SortItems(policy, SubSeq(list, 1, Len(list) - 1)), list[Len(list)])

\* ------------------------------------------------------------- Cache.Item
accessMut(item, now) ==
    [item EXCEPT !.access_time = now]
access(item, now) ==
    [item EXCEPT !.access_time = now, !.access_count = item.access_count + 1]

item_store(item, store, key, value, now) ==
    LET accessed == access([item EXCEPT !.key = key, !.access_count = 0], now)
        stored == store_value(store, key, value)
    IN  [accessed EXCEPT !.stored_value = stored[1], !.stored_size = stored[2]]

\* ------------------------------------------------------------- Cache
DictSet(d, key, item) ==
    [k \in (DOMAIN d) \cup {key} |-> IF k = key THEN item ELSE d[k]]
DictPop(d, key) ==
    [k \in (DOMAIN d) \ {key} |-> d[k]]

_add_item(self, item) ==
    [self EXCEPT !.item_dict = DictSet(self.item_dict, item.key, item),
                 !.item_list = Append(self.item_list, item)]

\* a removal that forgets the dict
_remove_itemMut(self, item) ==
    [self EXCEPT !.item_list = RemoveFirst(self.item_list, item)]
_remove_item(self, item) ==
    [self EXCEPT !.item_dict = DictPop(self.item_dict, item.key),
                 !.item_list = RemoveFirst(self.item_list, item)]

\* the dict and the list hold the same Item object: an access shows in both
ReplaceItem(self, old, new) ==
    [self EXCEPT !.item_dict = DictSet(self.item_dict, old.key, new),
                 !.item_list = [i \in 1..Len(self.item_list) |->
                                   IF self.item_list[i] = old THEN new ELSE self.item_list[i]]]

\* exc: the exception the running call raised, if any; faults: the store call
\* (store_value, discard_value), counted from now, that raises (0: none);
\* log: the put_value calls and the _remove_item calls made, in their order
Heap(caches, now) == [cache |-> caches, clock |-> now, exc |-> NoExc, faults |-> 0, log |-> <<>>]
Ret(h, value, exc) == [h |-> h, value |-> value, exc |-> exc]

Raise(h, exc) == [h EXCEPT !.exc = exc]
Logged(h, call, c, key) == [h EXCEPT !.log = Append(h.log, <<call, c, key>>)]
Raised(h) == h.exc # NoExc

\* a call of store.store_value or store.discard_value
StoreCall(h) ==
    IF h.faults = 0 THEN h
    ELSE IF h.faults = 1 THEN [h EXCEPT !.faults = 0, !.exc = "StoreError"]
    ELSE [h EXCEPT !.faults = h.faults - 1]

RECURSIVE get_value(_, _, _, _)
RECURSIVE remove_value(_, _, _, _)
RECURSIVE put_value(_, _, _, _, _)
RECURSIVE trim(_, _, _, _)
RECURSIVE trim_evict(_, _, _, _)
RECURSIVE clear_keys(_, _, _, _, _)

get_value(config, h, c, key) ==
    LET self == h.cache[c] IN
    IF key \in DOMAIN self.item_dict
    THEN LET item == self.item_dict[key]
             accessed == access(item, h.clock)
         IN  Ret([h EXCEPT !.cache[c] = ReplaceItem(self, item, accessed), !.clock = h.clock + 1],
                 restore_value(config[c].store, key, item.stored_value), NoExc)
    ELSE IF parent_cache(c) # NoParent
         THEN LET r == get_value(config, h, parent_cache(c), key) IN
              IF r.exc # NoExc THEN r
              ELSE IF Truthy(r.value)
                   \* item.restore(...) is called on the value the parent returned
                   THEN Ret(r.h, None, "AttributeError")
                   ELSE Ret(r.h, None, NoExc)
         ELSE Ret(h, None, NoExc)

\* a removal that leaves the parent alone
remove_valueMut(config, h, c, key) ==
    LET self == h.cache[c]
    IN  IF key \in DOMAIN self.item_dict
        THEN LET item == self.item_dict[key]
                 removed == _remove_item(self, item)
             IN  StoreCall([h EXCEPT !.cache[c] = [removed EXCEPT !.size = self.size - item.stored_size]])
        ELSE h
remove_value(config, h, c, key) ==
    LET h1 == IF parent_cache(c) # NoParent
              THEN remove_value(config, h, parent_cache(c), key)
              ELSE h
        self == h1.cache[c]
    IN  IF Raised(h1) THEN h1
        ELSE IF key \in DOMAIN self.item_dict
        THEN LET item == self.item_dict[key]
                 removed == _remove_item(self, item)
             \* the item is out and uncounted before item.discard calls the store
             IN  StoreCall(Logged([h1 EXCEPT !.cache[c] = [removed EXCEPT !.size = self.size - item.stored_size]],
                                  "_remove_item", c, key))
        ELSE h1

\* the victims of trim: the sweep over the sorted list (lines 225-231)
RECURSIVE trim_keys(_, _, _, _, _)
RECURSIVE trim_keysMut(_, _, _, _, _)
\* a sweep that does not lower the projected size
trim_keysMut(config, c, list, size, extra_size) ==
    IF list = <<>> THEN <<>>
    ELSE IF Exceeds(config, c, size + extra_size)
         THEN <<Head(list).key>> \o trim_keysMut(config, c, Tail(list), size, extra_size)
         ELSE trim_keysMut(config, c, Tail(list), size, extra_size)
trim_keys(config, c, list, size, extra_size) ==
    IF list = <<>> THEN <<>>
    ELSE IF Exceeds(config, c, size + extra_size)
         THEN <<Head(list).key>> \o
              trim_keys(config, c, Tail(list), size - Head(list).stored_size, extra_size)
         ELSE trim_keys(config, c, Tail(list), size, extra_size)

\* an eviction that promotes the victim and leaves it in the child
trim_evictMut(config, h, c, keys) ==
    IF keys = <<>> THEN h
    ELSE LET key == Head(keys) IN
         IF parent_cache(c) # NoParent
         THEN LET r == get_value(config, h, c, key)
                  h2 == IF Truthy(r.value)
                        THEN put_value(config, r.h, parent_cache(c), key, r.value)
                        ELSE r.h
              IN  trim_evict(config, h2, c, Tail(keys))
         ELSE trim_evict(config, remove_value(config, h, c, key), c, Tail(keys))
\* the eviction loop of trim (lines 235-243)
trim_evict(config, h, c, keys) ==
    IF keys = <<>> \/ Raised(h) THEN h
    ELSE LET key == Head(keys) IN
         IF parent_cache(c) # NoParent
         THEN LET r == get_value(config, h, c, key)
                  h1 == remove_value(config, r.h, c, key)
                  h2 == IF Raised(h1) THEN h1
                        ELSE IF Truthy(r.value)
                        THEN put_value(config, h1, parent_cache(c), key, r.value)
                        ELSE h1
              IN  IF r.exc # NoExc THEN Raise(r.h, r.exc)
                  ELSE trim_evict(config, h2, c, Tail(keys))
         ELSE trim_evict(config, remove_value(config, h, c, key), c, Tail(keys))

\* the first half of trim (lines 224-231): the list is sorted in place
trim_sort(config, h, c) ==
    [h EXCEPT !.cache[c].item_list = SortItems(config[c].policy, h.cache[c].item_list)]

trim(config, h, c, extra_size) ==
    LET h1 == trim_sort(config, h, c)
        keys == trim_keys(config, c, h1.cache[c].item_list, h1.cache[c].size, extra_size)
    IN  trim_evict(config, h1, c, keys)

\* a first half that discards the old item before it lowers the size
put_value_takeMut(config, h, c, key) ==
    LET h1 == IF parent_cache(c) # NoParent
              THEN remove_value(config, h, parent_cache(c), key)
              ELSE h
        self == h1.cache[c]
    IN  IF Raised(h1) THEN h1
        ELSE IF key \in DOMAIN self.item_dict
        THEN LET old == self.item_dict[key]
                 h2 == StoreCall([h1 EXCEPT !.cache[c] = _remove_item(self, old)])
             IN  IF Raised(h2) THEN h2
                 ELSE [h2 EXCEPT !.cache[c].size = self.size - old.stored_size]
        ELSE h1
\* the first half of put_value (lines 186-195): the parent's item and the
\* item this cache holds for the key are removed
put_value_take(config, h, c, key) ==
    LET h1 == IF parent_cache(c) # NoParent
              THEN remove_value(config, h, parent_cache(c), key)
              ELSE h
        self == h1.cache[c]
    IN  IF Raised(h1) THEN h1
        ELSE IF key \in DOMAIN self.item_dict
        THEN LET old == self.item_dict[key]
             IN  StoreCall(Logged([h1 EXCEPT !.cache[c] =
                                      [_remove_item(self, old) EXCEPT !.size = self.size - old.stored_size]],
                                  "_remove_item", c, key))
        ELSE h1

\* the second half of put_value (lines 196-200): the item is stored, room is
\* made for it and it is added
put_value_add(config, h, c, key, value) ==
    LET item == item_store(NewItem, config[c].store, key, value, h.clock)
        \* item.store reads the clock and then calls store.store_value
        h2 == StoreCall([h EXCEPT !.clock = h.clock + 1])
        h3 == IF Exceeds(config, c, h2.cache[c].size + item.stored_size)
              THEN trim(config, h2, c, item.stored_size)
              ELSE h2
        self3 == h3.cache[c]
    IN  IF Raised(h2) THEN h2
        ELSE IF Raised(h3) THEN h3
        ELSE [h3 EXCEPT !.cache[c] =
                 _add_item([self3 EXCEPT !.size = self3.size + item.stored_size], item)]

put_value(config, h, c, key, value) ==
    LET h1 == put_value_take(config, Logged(h, "put_value", c, key), c, key)
    IN  IF Raised(h1) THEN h1 ELSE put_value_add(config, h1, c, key, value)

\* one round of the loop of clear (lines 253-257), up to the removal
clear_copy(config, h, c, clear_parent, key) ==
    IF parent_cache(c) # NoParent /\ ~clear_parent
    THEN LET r == get_value(config, h, c, key) IN
         IF r.exc # NoExc THEN Raise(r.h, r.exc)
         ELSE IF Truthy(r.value)
         THEN put_value(config, r.h, parent_cache(c), key, r.value)
         ELSE r.h
    ELSE h

\* the loop of clear over the keys it listed (lines 252-257)
clear_keys(config, h, c, clear_parent, keys) ==
    IF keys = <<>> \/ Raised(h) THEN h
    ELSE LET key == Head(keys)
             h1 == clear_copy(config, h, c, clear_parent, key)
         IN  IF Raised(h1) THEN h1
             ELSE clear_keys(config, remove_value(config, h1, c, key), c, clear_parent, Tail(keys))

\* the keys of a cache, in the order of its item list
ListKeys(self) == [i \in 1..Len(self.item_list) |-> self.item_list[i].key]

\* the part of clear under the lock (lines 247-251), but for the listing
clear_parent_first(config, h, c, clear_parent) ==
    LET p == parent_cache(c)
    IN  IF p # NoParent /\ clear_parent
        THEN clear_keys(config, h, p, clear_parent, ListKeys(h.cache[p]))
        ELSE h

\* keys: list(self._item_dict.keys()) of cache c, in the order the dict yields
\* them; the parent's own listing is only removed, so its order has no effect
clear(config, h, c, clear_parent, keys) ==
    clear_keys(config, clear_parent_first(config, h, c, clear_parent), c, clear_parent, keys)

\* ------------------------------------------------------------- actions
\* dropped: the keys that were resident in the called cache before the call
\* and are no longer resident after it
Call(op, c, key, value, ret, exc, dropped) ==
    [op |-> op, c |-> c, key |-> key, value |-> value, ret |-> ret, exc |-> exc,
     dropped |-> dropped, img |-> 0, x |-> 0, y |-> 0, computes |-> 0,
     again |-> FALSE, before |-> None, mark |-> 0,
     t |-> 0, torn |-> FALSE, ended |-> TRUE, keys |-> <<>>, log |-> <<>>,
     shape |-> <<0, 0>>]

Dropped(c, h) == (DOMAIN cache[c].item_dict) \ (DOMAIN h.cache[c].item_dict)

Perms(S) ==
    {s \in [1..Cardinality(S) -> S] : \A i, j \in 1..Cardinality(S) : i # j => s[i] # s[j]}

GetValue(c, key) ==
    /\ LET r == get_value(cfg, Heap(cache, clock), c, key) IN
       /\ cache' = r.h.cache
       /\ clock' = r.h.clock
       /\ last' = Call("get_value", c, key, None, r.value, r.exc, Dropped(c, r.h))
    /\ UNCHANGED <<cfg, images, pyramid, size0, lock, thread, calc>>

PutValue(c, key, value) ==
    /\ LET h == put_value(cfg, Heap(cache, clock), c, key, value) IN
       /\ cache' = h.cache
       /\ clock' = h.clock
       /\ last' = Call("put_value", c, key, value, None, NoExc, Dropped(c, h))
    /\ UNCHANGED <<cfg, images, pyramid, size0, lock, thread, calc>>

RemoveValue(c, key) ==
    /\ LET h == remove_value(cfg, Heap(cache, clock), c, key) IN
       /\ cache' = h.cache
       /\ clock' = h.clock
       /\ last' = Call("remove_value", c, key, None, None, NoExc, Dropped(c, h))
    /\ UNCHANGED <<cfg, images, pyramid, size0, lock, thread, calc>>

Trim(c, extra_size) ==
    /\ LET h == trim(cfg, Heap(cache, clock), c, extra_size) IN
       /\ cache' = h.cache
       /\ clock' = h.clock
       /\ last' = [Call("trim", c, "", Payload("extra_size", extra_size), None, NoExc, Dropped(c, h))
                     EXCEPT !.log = h.log]
    /\ UNCHANGED <<cfg, images, pyramid, size0, lock, thread, calc>>

Clear(c, clear_parent) ==
    /\ \E keys \in Perms(DOMAIN cache[c].item_dict) :
         LET h == clear(cfg, Heap(cache, clock), c, clear_parent, keys) IN
         /\ cache' = h.cache
         /\ clock' = h.clock
         /\ last' = Call(IF clear_parent THEN "clear" ELSE "clear_keep_parent",
                         c, "", None, None, NoExc, Dropped(c, h))
    /\ UNCHANGED <<cfg, images, pyramid, size0, lock, thread, calc>>

vars == <<cache, clock, cfg, last, script, images, pyramid, size0, lock, thread, calc>>

Config(store, capacity, threshold, policy) ==
    [store |-> store, capacity |-> capacity, threshold |-> threshold, policy |-> policy]

\* the constructor arguments: one store class, one threshold and one policy
\* for both tiers, the parent of capacity MaxCapacity
Configs ==
    {[c \in CacheIds |-> Config(s, IF c = "C" THEN cap ELSE MaxCapacity, th, po)] :
        s \in Stores, cap \in 1..MaxCapacity, th \in Thresholds, po \in Policies}

\* unit sizes, LRU, threshold 1.0 and the capacities cap
Scripted(cap) ==
    [d \in CacheIds |-> Config("MemoryCacheStore", cap[d], ThresholdDen, "LRU")]

NoScript == [name |-> "none", pc |-> 0, puts |-> <<>>]

InitCaches ==
    /\ cache = [c \in CacheIds |-> EmptyCache]
    /\ clock = 1
    /\ last = Call("init", "", "", None, None, NoExc, {})

NoImages ==
    /\ images = <<>>
    /\ pyramid = <<>>
    /\ size0 = <<>>

\* a single client thread, which the model leaves implicit
NoThreads ==
    /\ lock = <<>>
    /\ thread = <<>>

NoCalc ==
    calc = <<>>

Init ==
    /\ InitCaches
    /\ cfg \in Configs
    /\ script = NoScript
    /\ NoImages
    /\ NoThreads
    /\ NoCalc

\* the calls that read the clock stop at MaxClock; remove_value reads no clock
Running == clock < MaxClock

\* clients call both caches
Next ==
    \/ \E c \in CacheIds, key \in Keys :
          Running /\ GetValue(c, key) /\ UNCHANGED script
    \/ \E c \in CacheIds, key \in Keys, value \in Values :
          Running /\ PutValue(c, key, value) /\ UNCHANGED script
    \/ \E c \in CacheIds, key \in Keys :
          RemoveValue(c, key) /\ UNCHANGED script
    \/ \E c \in CacheIds, extra_size \in 0..1 :
          Running /\ Trim(c, extra_size) /\ UNCHANGED script
    \/ \E c \in CacheIds, clear_parent \in BOOLEAN :
          Running /\ Clear(c, clear_parent) /\ UNCHANGED script

Spec == Init /\ [][Next]_vars

\* clients call the child cache only
NextChild ==
    \/ \E key \in Keys :
          Running /\ GetValue("C", key) /\ UNCHANGED script
    \/ \E key \in Keys, value \in Values :
          Running /\ PutValue("C", key, value) /\ UNCHANGED script
    \/ \E key \in Keys :
          Running /\ RemoveValue("C", key) /\ UNCHANGED script
    \/ \E extra_size \in 0..1 :
          Running /\ Trim("C", extra_size) /\ UNCHANGED script
    \/ \E clear_parent \in BOOLEAN :
          Running /\ Clear("C", clear_parent) /\ UNCHANGED script

SpecChild == Init /\ [][NextChild]_vars

\* ------------------------------------------------------------- direct trims
\* A client fills one cache, last.c, of capacity MaxTrimCapacity with put_value
\* and get_value calls and then calls its trim.
TrimConfigs ==
    {[c \in CacheIds |-> Config(s, MaxTrimCapacity, th, po)] :
        s \in Stores, th \in Thresholds, po \in Policies}

InitTrim ==
    /\ cache = [c \in CacheIds |-> EmptyCache]
    /\ clock = 1
    /\ \E c \in CacheIds : last = Call("init", c, "", None, None, NoExc, {})
    /\ cfg \in TrimConfigs
    /\ script = NoScript
    /\ NoImages
    /\ NoThreads
    /\ NoCalc

Filling == clock < MaxTrimClock /\ last.op # "trim"

NextTrim ==
    \/ \E key \in DOMAIN cache[last.c].item_dict :
          Filling /\ GetValue(last.c, key) /\ UNCHANGED script
    \/ \E key \in Keys, value \in Values \ {None} :
          Filling /\ PutValue(last.c, key, value) /\ UNCHANGED script
    \/ \E extra_size \in 0..MaxTrimCapacity :
          Filling /\ Trim(last.c, extra_size) /\ UNCHANGED script

SpecTrim == InitTrim /\ [][NextTrim]_vars

\* ------------------------------------------------------------- failing stores
\* put_value and remove_value on a cache whose store may raise: fault is the
\* store call of this call (its own and those of the calls it makes) that
\* raises; 0 and numbers beyond the calls made raise nothing
PutValueFailing(c, key, value, fault) ==
    /\ LET h == put_value(cfg, [Heap(cache, clock) EXCEPT !.faults = fault], c, key, value) IN
       /\ cache' = h.cache
       /\ clock' = h.clock
       /\ last' = Call("put_value", c, key, value, None, h.exc, Dropped(c, h))
    /\ UNCHANGED <<cfg, images, pyramid, size0, lock, thread, calc>>

RemoveValueFailing(c, key, fault) ==
    /\ LET h == remove_value(cfg, [Heap(cache, clock) EXCEPT !.faults = fault], c, key) IN
       /\ cache' = h.cache
       /\ clock' = h.clock
       /\ last' = Call("remove_value", c, key, None, None, h.exc, Dropped(c, h))
    /\ UNCHANGED <<cfg, images, pyramid, size0, lock, thread, calc>>

NextFailing ==
    \/ \E c \in CacheIds, key \in Keys, value \in Values, fault \in 0..MaxFaults :
          Running /\ PutValueFailing(c, key, value, fault) /\ UNCHANGED script
    \/ \E c \in CacheIds, key \in Keys, fault \in 0..MaxFaults :
          Running /\ RemoveValueFailing(c, key, fault) /\ UNCHANGED script

SpecFailing == Init /\ [][NextFailing]_vars

\* ------------------------------------------------------------- tile sizes
\* int(num + denom - 1) // int(denom)
cardinal_div_roundMut(num, denom) == num \div denom
cardinal_div_round(num, denom) == (num + denom - 1) \div denom

\* halves x while it is even; the loop does not end for x = 0
RECURSIVE cardinal_log2(_)
cardinal_log2(x) == IF x % 2 = 0 THEN 1 + cardinal_log2(x \div 2) ELSE 0

\* what a call returned, or the exception it raised
Result(ret, exc) == [ret |-> ret, exc |-> exc]

\* the defaults of compute_tile_size; 0 is the absent (None) chunk_size or
\* num_levels_min, which the code tests for truth
TileSizeMin == 180
TileSizeMax == 512
TileSizeStep == 2
Absent == 0

\* the natural series (lines 71-78): <<ts, num_levels>> at the end of the loop
RECURSIVE halve(_, _, _)
RECURSIVE halveMut(_, _, _)
\* a series that stops at the first size within the default maximum
halveMut(ts, num_levels, tile_size_min) ==
    IF ts % 2 = 0 /\ ts > TileSizeMax
    THEN IF ts \div 2 < tile_size_min THEN <<ts, num_levels>>
         ELSE halveMut(ts \div 2, num_levels + 1, tile_size_min)
    ELSE <<ts, num_levels>>
halve(ts, num_levels, tile_size_min) ==
    IF ts % 2 = 0
    THEN IF ts \div 2 < tile_size_min THEN <<ts, num_levels>>
         ELSE halve(ts \div 2, num_levels + 1, tile_size_min)
    ELSE <<ts, num_levels>>

\* the second continue statement (lines 90-94): the candidate ts has too few
\* levels; not to be evaluated for total_size = 0, where cardinal_log2(0)
\* does not return
skip_num_levels(total_size, ts, num_levels_min) ==
    /\ num_levels_min # Absent
    /\ cardinal_log2(cardinal_div_round(total_size, ts) * ts) < num_levels_min

\* the search (lines 85-106) from candidate ts on
RECURSIVE scan(_, _, _, _, _, _, _, _, _)
scan(total_size, tile_size_max, tile_size_step, chunk_size, num_levels_min, int_div, ts, best_tile_size, min_penalty) ==
    LET num_tiles == cardinal_div_round(total_size, ts)
        total_size_excess == ts * num_tiles - total_size
        tile_size_excess == ts * ((ts + chunk_size - 1) \div chunk_size) - ts
        penalty == total_size_excess + IF chunk_size # Absent THEN tile_size_excess ELSE 0
        \* the two continue statements (lines 87-88 and 93-94)
        skipped == \/ int_div /\ total_size % ts # 0
                   \/ skip_num_levels(total_size, ts, num_levels_min)
        better == ~skipped /\ penalty < min_penalty
    IN  IF ts > tile_size_max THEN Result(best_tile_size, NoExc)
        ELSE IF ~(int_div /\ total_size % ts # 0) /\ num_levels_min # Absent /\ num_tiles * ts = 0
             \* cardinal_log2(0) does not return
             THEN Result(Absent, "no return")
        ELSE scan(total_size, tile_size_max, tile_size_step, chunk_size, num_levels_min, int_div,
                  ts + tile_size_step,
                  IF better THEN ts ELSE best_tile_size,
                  IF better THEN penalty ELSE min_penalty)

compute_tile_size(total_size, tile_size_min, tile_size_max, tile_size_step, chunk_size, num_levels_min, int_div) ==
    LET series == halve(total_size, 0, tile_size_min)
        found == scan(total_size, tile_size_max, tile_size_step, chunk_size, num_levels_min,
                      int_div, tile_size_min, Absent, 10 * total_size)
    IN  IF series[1] <= tile_size_max /\ (num_levels_min = Absent \/ series[2] >= num_levels_min)
        THEN Result(series[1], NoExc)
        ELSE IF found.exc # NoExc THEN found
        ELSE IF found.ret = Absent THEN Result(Absent, "ValueError")
        ELSE found

\* ------------------------------------------------------------- images
\* str(uuid.uuid4): the function object, not a call of it
DefaultId == "<function uuid4>"

\* image_id if image_id else str(uuid.uuid4); "" is an absent image_id
ImageId(image_id) == IF image_id # "" THEN image_id ELSE DefaultId

get_tile_id(id, tile_x, tile_y) == id \o "/" \o ToString(tile_y) \o "/" \o ToString(tile_x)

OpImage(kind, source, size, tile_size, num_tiles, image_id, tile_cache) ==
    [kind |-> kind, source |-> source, size |-> size, tile_size |-> tile_size,
     num_tiles |-> num_tiles, id |-> ImageId(image_id), tile_cache |-> tile_cache]

\* an OpImage subclass that computes its tiles itself
SourceImage(size, tile_size, num_tiles, image_id, tile_cache) ==
    OpImage("source", 0, size, tile_size, num_tiles, image_id, tile_cache)

DecoratorImage(imgs, source, image_id, tile_cache) ==
    OpImage("decorator", source, imgs[source].size, imgs[source].tile_size,
            imgs[source].num_tiles, image_id, tile_cache)

TransformArrayImage(imgs, source, tile_cache) ==
    DecoratorImage(imgs, source, "", tile_cache)

DownsamplingImage(imgs, source, image_id, tile_cache) ==
    OpImage("downsampling", source,
            <<imgs[source].size[1] \div 2, imgs[source].size[2] \div 2>>,
            imgs[source].tile_size,
            <<imgs[source].num_tiles[1] \div 2, imgs[source].num_tiles[2] \div 2>>,
            image_id, tile_cache)

\* 1 << n
RECURSIVE ShiftLeft1(_)
ShiftLeft1(n) == IF n = 0 THEN 1 ELSE 2 * ShiftLeft1(n - 1)

\* the image id is '%s-L%d' % (uuid.uuid4(), z_index): a new uuid per image
FastNdarrayDownsamplingImage(array, tile_size, z_index, num_levels, tile_cache) ==
    LET zoom == ShiftLeft1(num_levels - z_index - 1)
        width == array.shape[1] \div zoom
        height == array.shape[2] \div zoom
    IN  OpImage("array", 0, <<width, height>>, tile_size,
                <<cardinal_div_round(width, tile_size[1]), cardinal_div_round(height, tile_size[2])>>,
                "uuid" \o ToString(z_index) \o "-L" \o ToString(z_index), tile_cache)
            @@ [array |-> array, z_index |-> z_index, zoom |-> zoom]

\* a factory that downsamples the source image for every level
create_ndarray_downsampling_imageMut(imgs, source, higher_level, z_index, tile_cache) ==
    DownsamplingImage(imgs, source, imgs[source].id \o "-L" \o ToString(z_index), tile_cache)
create_ndarray_downsampling_image(imgs, source, higher_level, z_index, tile_cache) ==
    DownsamplingImage(imgs, higher_level, imgs[source].id \o "-L" \o ToString(z_index), tile_cache)

InGrid(img, x, y) == x < img.num_tiles[1] /\ y < img.num_tiles[2]

\* the payload image i computes for tile (x, y): the tag tells who computed it
TileTag(i, x, y) == ToString(i) \o ":" \o ToString(y) \o "/" \o ToString(x)
TileBytes(x, y) == 1 + (x % MaxBytes)

TileRet(h, value, exc, computes) ==
    [h |-> h, value |-> value, exc |-> exc, computes |-> computes]

RECURSIVE get_tile(_, _, _, _, _, _)
RECURSIVE compute_tile(_, _, _, _, _, _)

\* the source image's compute_tile gives null outside its grid; a decorator
\* maps its source tile; a downsampler stitches four source tiles
compute_tile(config, imgs, h, i, tile_x, tile_y) ==
    LET img == imgs[i] IN
    CASE img.kind = "source" ->
           TileRet(h, IF InGrid(img, tile_x, tile_y)
                      THEN Payload(TileTag(i, tile_x, tile_y), TileBytes(tile_x, tile_y))
                      ELSE None, NoExc, 0)
      [] img.kind = "decorator" ->
           LET s == get_tile(config, imgs, h, img.source, tile_x, tile_y) IN
           IF s.exc # NoExc \/ s.value = None THEN s
           ELSE TileRet(s.h, Payload(TileTag(i, tile_x, tile_y), s.value.nbytes), NoExc, s.computes)
      [] OTHER ->
           LET t1 == get_tile(config, imgs, h, img.source, 2 * tile_x, 2 * tile_y)
               t2 == get_tile(config, imgs, t1.h, img.source, 2 * tile_x, 2 * tile_y + 1)
               t3 == get_tile(config, imgs, t2.h, img.source, 2 * tile_x + 1, 2 * tile_y)
               t4 == get_tile(config, imgs, t3.h, img.source, 2 * tile_x + 1, 2 * tile_y + 1)
               n == t1.computes + t2.computes + t3.computes + t4.computes
           IN  IF t1.exc # NoExc THEN t1
               ELSE IF t2.exc # NoExc THEN TileRet(t2.h, None, t2.exc, t1.computes + t2.computes)
               ELSE IF t3.exc # NoExc THEN TileRet(t3.h, None, t3.exc, n - t4.computes)
               ELSE IF t4.exc # NoExc THEN TileRet(t4.h, None, t4.exc, n)
               ELSE IF None \in {t1.value, t2.value, t3.value, t4.value}
                    \* downsample_ndarray subscripts the null tile
                    THEN TileRet(t4.h, None, "TypeError", n)
                    ELSE TileRet(t4.h, Payload(TileTag(i, tile_x, tile_y), t1.value.nbytes), NoExc, n)

get_tile(config, imgs, h, i, tile_x, tile_y) ==
    LET img == imgs[i]
        tile_id == get_tile_id(img.id, tile_x, tile_y)
        r == get_value(config, h, img.tile_cache, tile_id)
    IN  IF r.exc # NoExc THEN TileRet(r.h, None, r.exc, 0)
        ELSE IF r.value # None THEN TileRet(r.h, r.value, NoExc, 0)
        ELSE LET t == compute_tile(config, imgs, r.h, i, tile_x, tile_y) IN
             IF t.exc # NoExc THEN TileRet(t.h, None, t.exc, t.computes + 1)
             ELSE TileRet(put_value(config, t.h, img.tile_cache, tile_id, t.value),
                          t.value, NoExc, t.computes + 1)

\* the coordinates dispose walks: tile_y over range(num_tiles_y), tile_x over
\* range(num_tiles_x) inside it
GridCoordsMut(num_tiles) ==
    [n \in 1..(num_tiles[2] * num_tiles[2]) |->
        <<(n - 1) % num_tiles[2], (n - 1) \div num_tiles[2]>>]
GridCoords(num_tiles) ==
    [n \in 1..(num_tiles[1] * num_tiles[2]) |->
        <<(n - 1) % num_tiles[1], (n - 1) \div num_tiles[1]>>]

RECURSIVE dispose_tiles(_, _, _, _, _)
dispose_tiles(config, h, c, id, coords) ==
    IF coords = <<>> THEN h
    ELSE dispose_tiles(config,
                       remove_value(config, h, c, get_tile_id(id, Head(coords)[1], Head(coords)[2])),
                       c, id, Tail(coords))

dispose(config, imgs, h, i) ==
    dispose_tiles(config, h, imgs[i].tile_cache, imgs[i].id, GridCoords(imgs[i].num_tiles))

RECURSIVE pyramid_dispose(_, _, _, _)
pyramid_dispose(config, imgs, h, level_images) ==
    IF level_images = <<>> THEN h
    ELSE pyramid_dispose(config, imgs, dispose(config, imgs, h, Head(level_images)), Tail(level_images))

\* ------------------------------------------------------------- image actions
NotFetched == 0 - 1

GetTile(i, tile_x, tile_y) ==
    LET c == images[i].tile_cache
        t == get_tile(cfg, images, Heap(cache, clock), i, tile_x, tile_y)
    IN  /\ cache' = t.h.cache
        /\ clock' = t.h.clock
        /\ last' = [Call("get_tile", c, get_tile_id(images[i].id, tile_x, tile_y),
                         None, t.value, t.exc, Dropped(c, t.h))
                      EXCEPT !.img = i, !.x = tile_x, !.y = tile_y, !.computes = t.computes,
                             !.again = /\ last.op = "get_tile" /\ last.exc = NoExc
                                       /\ last.img = i /\ last.x = tile_x /\ last.y = tile_y,
                             !.before = last.ret]
        /\ size0' = IF size0[i] = NotFetched THEN [size0 EXCEPT ![i] = cache[c].size] ELSE size0
        /\ UNCHANGED <<cfg, script, images, pyramid, lock, thread, calc>>

Dispose(i) ==
    LET c == images[i].tile_cache
        h == dispose(cfg, images, Heap(cache, clock), i)
    IN  /\ cache' = h.cache
        /\ clock' = h.clock
        /\ last' = [Call("dispose", c, "", None, None, NoExc, Dropped(c, h))
                      EXCEPT !.img = i, !.mark = size0[i]]
        /\ size0' = [size0 EXCEPT ![i] = NotFetched]
        /\ UNCHANGED <<cfg, script, images, pyramid, lock, thread, calc>>

InPyramid(i) == \E z \in DOMAIN pyramid : pyramid[z] = i

PyramidDispose ==
    LET c == images[pyramid[1]].tile_cache
        h == pyramid_dispose(cfg, images, Heap(cache, clock), pyramid)
    IN  /\ cache' = h.cache
        /\ clock' = h.clock
        /\ last' = Call("pyramid_dispose", c, "", None, None, NoExc, Dropped(c, h))
        /\ size0' = [i \in DOMAIN size0 |-> IF InPyramid(i) THEN NotFetched ELSE size0[i]]
        /\ UNCHANGED <<cfg, script, images, pyramid, lock, thread, calc>>

\* The images a client built on one tile cache c: image 1 is a 2x2 source
\* image, image 2 the level-0 image the pyramid factory builds from it,
\* image 3 a 2x1 source image and image 4 a TransformArrayImage over it.
\* id_a, id_b: the image_id given for the source images ("" is none).
Scene(c, id_a, id_b) ==
    LET i1 == <<SourceImage(<<2, 2>>, <<1, 1>>, <<2, 2>>, id_a, c)>>
        i2 == Append(i1, create_ndarray_downsampling_image(i1, 1, 1, 0, c))
        i3 == Append(i2, SourceImage(<<2, 1>>, <<1, 1>>, <<2, 1>>, id_b, c))
    IN  Append(i3, TransformArrayImage(i3, 3, c))

\* the tile caches: tile stores, LRU
ImageConfigs ==
    {config \in Configs : config["C"].store = "MemoryTileCacheStore" /\ config["C"].policy = "LRU"}

InitImages ==
    /\ InitCaches
    /\ cfg \in ImageConfigs
    /\ script = NoScript
    /\ \E c \in CacheIds, id_a \in {"", "A"}, id_b \in {"", "B"} :
         images = Scene(c, id_a, id_b)
    /\ pyramid = <<2, 1>>
    /\ size0 = [i \in 1..4 |-> NotFetched]
    /\ NoThreads
    /\ NoCalc

Coords == 0..1

Fetching == clock < MaxTileClock

NextImages ==
    \/ \E i \in DOMAIN images, tile_x \in Coords, tile_y \in Coords :
          Fetching /\ GetTile(i, tile_x, tile_y)
    \/ \E i \in DOMAIN images :
          Fetching /\ Dispose(i)
    \/ Fetching /\ PyramidDispose

SpecImages == InitImages /\ [][NextImages]_vars

\* ------------------------------------------------------------- threads
\* Threads 1..MaxThreads call one Cache, thread[t].c.  A step of a thread is
\* what it does to that cache while it owns the cache's RLock without letting
\* go; put_value is taken in its two halves.  The parent is reached through
\* the child only.
Threads == 1..MaxThreads
NoThread == 0

FreeLock == [owner |-> NoThread, count |-> 0]

\* RLock.acquire() returns at once when the lock is free or owned by the caller
AcquirableMut(t, c) == TRUE
Acquirable(t, c) == lock[c].count = 0 \/ lock[c].owner = t

\* n acquisitions by t that no release has answered yet; a step that took
\* the lock and gave it back each time leaves it as it is
Acquired(t, c, n) ==
    IF n = 0 THEN lock
    ELSE IF lock[c].count + n = 0 THEN [lock EXCEPT ![c] = FreeLock]
    ELSE [lock EXCEPT ![c] = [owner |-> t, count |-> lock[c].count + n]]

IdleThread(c) ==
    [pc |-> "idle", c |-> c, op |-> "", key |-> "", value |-> None, keys |-> <<>>,
     clear_parent |-> FALSE, changed |-> FALSE, disturbed |-> FALSE]

InCall(t) == thread[t].pc \notin {"idle", "raised"}

\* Thread t takes a step that leaves heap h and its own record as next.
\* changed: the call t is in has changed the cache; disturbed: since then
\* another thread changed or read the cache.  A later change by the call
\* makes the call torn.
ThreadStep(t, h, next, ret, observes, held) ==
    LET c == thread[t].c
        effect == h.cache[c] # cache[c]
        exc == h.exc
        ends == next.pc = "idle" \/ exc # NoExc
        mine == IF exc # NoExc THEN [next EXCEPT !.pc = "raised"] ELSE next
    IN  /\ cache' = h.cache
        /\ clock' = h.clock
        /\ lock' = Acquired(t, c, held)
        /\ thread' = [u \in Threads |->
                        IF u = t
                        THEN [mine EXCEPT !.changed = ~ends /\ (thread[t].changed \/ effect),
                                          !.disturbed = ~ends /\ thread[t].disturbed]
                        ELSE IF InCall(u) /\ thread[u].changed /\ (effect \/ observes)
                             THEN [thread[u] EXCEPT !.disturbed = TRUE]
                             ELSE thread[u]]
        /\ last' = [Call(next.op, c, next.key, next.value, ret, exc, Dropped(c, h))
                      EXCEPT !.t = t, !.torn = effect /\ thread[t].disturbed,
                             !.ended = ends, !.keys = thread[t].keys]
        /\ UNCHANGED <<cfg, script, images, pyramid, size0, calc>>

Begin(t, op, key, value) ==
    [IdleThread(thread[t].c) EXCEPT !.op = op, !.key = key, !.value = value]

\* get_value: lines 172-182 under the lock; an exception leaves it acquired
TGetValue(t, key) ==
    /\ thread[t].pc = "idle" /\ Acquirable(t, thread[t].c)
    /\ LET r == get_value(cfg, Heap(cache, clock), thread[t].c, key) IN
       ThreadStep(t, Raise(r.h, r.exc), Begin(t, "get_value", key, None), r.value, TRUE,
                  IF r.exc # NoExc THEN 1 ELSE 0)

TRemoveValue(t, key) ==
    /\ thread[t].pc = "idle" /\ Acquirable(t, thread[t].c)
    /\ ThreadStep(t, remove_value(cfg, Heap(cache, clock), thread[t].c, key),
                  Begin(t, "remove_value", key, None), None, FALSE, 0)

\* put_value, lines 185-195: the lock stays acquired
TPutValueTake(t, key, value) ==
    /\ thread[t].pc = "idle" /\ Acquirable(t, thread[t].c)
    /\ ThreadStep(t, put_value_take(cfg, Heap(cache, clock), thread[t].c, key),
                  [Begin(t, "put_value", key, value) EXCEPT !.pc = "put_add"], None, FALSE, 1)

\* put_value, lines 196-201
TPutValueAdd(t) ==
    /\ thread[t].pc = "put_add"
    /\ ThreadStep(t, put_value_add(cfg, Heap(cache, clock), thread[t].c, thread[t].key, thread[t].value),
                  [thread[t] EXCEPT !.pc = "idle"], None, FALSE, 0 - 1)

\* trim, lines 223-232: the victims are selected and the lock is released
TTrimSelect(t, extra_size) ==
    /\ thread[t].pc = "idle" /\ Acquirable(t, thread[t].c)
    /\ LET c == thread[t].c
           h == trim_sort(cfg, Heap(cache, clock), c)
           keys == trim_keys(cfg, c, h.cache[c].item_list, h.cache[c].size, extra_size)
       IN  ThreadStep(t, h, [Begin(t, "trim", "", Payload("extra_size", extra_size))
                               EXCEPT !.pc = "trim_evict", !.keys = keys], None, FALSE, 0)

\* trim, lines 234-244: the eviction loop under the lock; an exception, raised
\* inside get_value, leaves both acquisitions unanswered
TTrimEvict(t) ==
    /\ thread[t].pc = "trim_evict" /\ Acquirable(t, thread[t].c)
    /\ LET h == trim_evict(cfg, Heap(cache, clock), thread[t].c, thread[t].keys) IN
       ThreadStep(t, h, [thread[t] EXCEPT !.pc = "idle", !.keys = <<>>], None, FALSE,
                  IF Raised(h) THEN 2 ELSE 0)

\* where the loop of clear goes next: the keys left, and whether it copies
ClearLoop(rec, keys) ==
    IF keys = <<>> THEN [rec EXCEPT !.pc = "idle", !.keys = <<>>]
    ELSE IF parent_cache(rec.c) # NoParent /\ ~rec.clear_parent
         THEN [rec EXCEPT !.pc = "clear_get", !.keys = keys, !.key = Head(keys)]
         ELSE [rec EXCEPT !.pc = "clear_remove", !.keys = keys, !.key = Head(keys)]

\* clear, lines 247-251: the parent is cleared and the keys are listed
TClearList(t, clear_parent) ==
    /\ thread[t].pc = "idle" /\ Acquirable(t, thread[t].c)
    /\ LET c == thread[t].c
           h == clear_parent_first(cfg, Heap(cache, clock), c, clear_parent)
       IN  \E keys \in Perms(DOMAIN h.cache[c].item_dict) :
             ThreadStep(t, h,
                        ClearLoop([Begin(t, IF clear_parent THEN "clear" ELSE "clear_keep_parent", "", None)
                                     EXCEPT !.clear_parent = clear_parent], keys),
                        None, FALSE, 0)

\* clear, line 254: self.get_value(key)
TClearGet(t) ==
    /\ thread[t].pc = "clear_get" /\ Acquirable(t, thread[t].c)
    /\ LET r == get_value(cfg, Heap(cache, clock), thread[t].c, thread[t].key) IN
       ThreadStep(t, Raise(r.h, r.exc), [thread[t] EXCEPT !.pc = "clear_put", !.value = r.value],
                  None, TRUE, IF r.exc # NoExc THEN 1 ELSE 0)

\* clear, lines 255-256: the parent's put_value, under the parent's lock only
TClearPut(t) ==
    /\ thread[t].pc = "clear_put"
    /\ LET h == Heap(cache, clock) IN
       ThreadStep(t, IF Truthy(thread[t].value)
                     THEN put_value(cfg, h, parent_cache(thread[t].c), thread[t].key, thread[t].value)
                     ELSE h,
                  [thread[t] EXCEPT !.pc = "clear_remove"], None, FALSE, 0)

\* clear, line 257: self.remove_value(key)
TClearRemove(t) ==
    /\ thread[t].pc = "clear_remove" /\ Acquirable(t, thread[t].c)
    /\ ThreadStep(t, remove_value(cfg, Heap(cache, clock), thread[t].c, thread[t].key),
                  ClearLoop(thread[t], Tail(thread[t].keys)), None, FALSE, 0)

\* the threads share the child or the parent; unit sizes, LRU, threshold 1.0
InitThreads ==
    /\ InitCaches
    /\ NoImages
    /\ NoCalc
    /\ script = NoScript
    /\ \E cap \in 1..MaxCapacity :
         cfg = Scripted([d \in CacheIds |-> IF d = "C" THEN cap ELSE MaxCapacity])
    /\ lock = [c \in CacheIds |-> FreeLock]
    /\ \E c \in CacheIds : thread = [t \in Threads |-> IdleThread(c)]

ThreadKeys == {"a", "b"}
ThreadValues == {Payload("v", 1)}

NextThreads ==
    \/ \E t \in Threads, key \in ThreadKeys : Running /\ TGetValue(t, key)
    \/ \E t \in Threads, key \in ThreadKeys : TRemoveValue(t, key)
    \/ \E t \in Threads, key \in ThreadKeys, value \in ThreadValues : Running /\ TPutValueTake(t, key, value)
    \/ \E t \in Threads : TPutValueAdd(t)
    \/ \E t \in Threads, extra_size \in 0..1 : TTrimSelect(t, extra_size)
    \/ \E t \in Threads : TTrimEvict(t)
    \/ \E t \in Threads, clear_parent \in BOOLEAN : TClearList(t, clear_parent)
    \/ \E t \in Threads : TClearGet(t)
    \/ \E t \in Threads : TClearPut(t)
    \/ \E t \in Threads : TClearRemove(t)

SpecThreads == InitThreads /\ [][NextThreads]_vars

\* ------------------------------------------------------------- cache claims
Resident(c) == DOMAIN cache[c].item_dict

RECURSIVE SumSizes(_, _)
SumSizes(d, keys) ==
    IF keys = {} THEN 0
    ELSE LET k == CHOOSE x \in keys : TRUE
         IN  d[k].stored_size + SumSizes(d, keys \ {k})

\* the sum of stored_size over the items resident in cache c
ResidentSize(c) == SumSizes(cache[c].item_dict, Resident(c))

\* C1: after any sequence of completed put_value, get_value, remove_value,
\* trim and clear calls, every cache's reported size equals the sum of
\* stored_size over the items resident in it.
C1_SizeIsSumOfStoredSizes ==
    \A c \in CacheIds : cache[c].size = ResidentSize(c)

\* a put on the child trimmed it and the victim was promoted to the parent
C1_Witness ==
    /\ last.op = "put_value" /\ last.c = "C" /\ last.dropped # {}
    /\ last.dropped \subseteq Resident("P")
    /\ cfg["C"].store = "MemoryTileCacheStore"
    /\ cache["C"].size = MaxBytes

\* the stored size the store of cache c reports for value
StoredSize(c, key, value) == store_value(cfg[c].store, key, value)[2]

\* size > max_size = capacity * threshold of cache c
OverMax(c, size) == size * ThresholdDen > cfg[c].capacity * cfg[c].threshold

\* C2 as claimed: after every completed put_value the cache's size is at
\* most max_size, whatever size the store reports for the new value.
C2_SizeWithinMaxAfterPut ==
    last.op = "put_value" => ~OverMax(last.c, cache[last.c].size)

\* C2 amended: after every completed put_value of a value whose stored size
\* is at most max_size, the cache's size is at most max_size.
C2_SizeWithinMaxAfterPutThatFits ==
    (last.op = "put_value" /\ ~OverMax(last.c, StoredSize(last.c, last.key, last.value)))
        => ~OverMax(last.c, cache[last.c].size)

\* a put that fits had to trim the cache, which is now exactly full
C2_Witness ==
    /\ last.op = "put_value" /\ last.dropped # {}
    /\ ~OverMax(last.c, StoredSize(last.c, last.key, last.value))
    /\ cache[last.c].size * ThresholdDen = cfg[last.c].capacity * cfg[last.c].threshold

IsCall(call, op, c, key) == call.op = op /\ call.c = c /\ call.key = key

\* C4: with the default memory store, after put_value(k, v) the key k is
\* resident with access count 1 and value v, and a get_value(k) on a resident
\* key returns the stored value and raises its access count by exactly 1.
C4_PutThenGet ==
    [][\A c \in CacheIds, k \in Keys :
        cfg[c].store = "MemoryCacheStore" =>
          /\ IsCall(last', "put_value", c, k) =>
               /\ k \in DOMAIN cache'[c].item_dict
               /\ cache'[c].item_dict[k].access_count = 1
               /\ cache'[c].item_dict[k].stored_value = last'.value
          /\ (IsCall(last', "get_value", c, k) /\ k \in DOMAIN cache[c].item_dict) =>
               /\ last'.exc = NoExc
               /\ last'.ret = cache[c].item_dict[k].stored_value
               /\ k \in DOMAIN cache'[c].item_dict
               /\ cache'[c].item_dict[k].access_count = cache[c].item_dict[k].access_count + 1
      ]_vars

\* a get_value right after the put_value of a truthy value returned it
C4_Witness ==
    /\ last.op = "get_value" /\ last.exc = NoExc /\ Truthy(last.ret)
    /\ cfg[last.c].store = "MemoryCacheStore"
    /\ last.key \in Resident(last.c)
    /\ cache[last.c].item_dict[last.key].access_count = 2
    /\ cache[last.c].item_dict[last.key].stored_value = last.ret

\* C5 as claimed: get_value(k) on C, with k resident in P only, returns P's
\* value for k, leaves C as it was and counts one more access on P's item.
C5_GetFromParent ==
    [][\A k \in Keys :
        (IsCall(last', "get_value", "C", k)
            /\ k \notin DOMAIN cache["C"].item_dict
            /\ k \in DOMAIN cache["P"].item_dict) =>
          /\ last'.exc = NoExc
          /\ last'.ret = cache["P"].item_dict[k].stored_value
          /\ cache'["C"] = cache["C"]
          /\ k \in DOMAIN cache'["P"].item_dict
          /\ cache'["P"].item_dict[k].access_count = cache["P"].item_dict[k].access_count + 1
      ]_vars

\* the cache c and its ancestors
Chain(c) == IF parent_cache(c) = NoParent THEN {c} ELSE {c, parent_cache(c)}

\* the stored size of the item d holds for k; 0 when it holds none
HeldSize(d, k) ==
    IF k \in DOMAIN cache[d].item_dict THEN cache[d].item_dict[k].stored_size ELSE 0

\* C14: after remove_value(k) on a cache, k is resident neither in it nor in
\* an ancestor and each of these caches lost exactly the stored size of the
\* item it held for k; when none of them held k, the call raises nothing and
\* changes no resident set, no size and no access data.
C14_RemoveValueFrame ==
    [][\A c \in CacheIds, k \in Keys :
        IsCall(last', "remove_value", c, k) =>
          /\ last'.exc = NoExc
          /\ \A d \in Chain(c) :
                /\ k \notin DOMAIN cache'[d].item_dict
                /\ cache'[d].size = cache[d].size - HeldSize(d, k)
          /\ \A d \in CacheIds \ Chain(c) : cache'[d] = cache[d]
          /\ (\A d \in Chain(c) : k \notin DOMAIN cache[d].item_dict) => cache' = cache
      ]_vars

\* remove_value on the child removed the key from the child; another key stays
C14_Witness ==
    /\ last.op = "remove_value" /\ last.c = "C" /\ last.dropped = {last.key}
    /\ Resident("C") # {} /\ last.key \notin Resident("P")

\* the size of P if it held, next to its own items, the items of C
SizeWithItemsOf(keys) ==
    SumSizes(cache["P"].item_dict, Resident("P") \ keys) + SumSizes(cache["C"].item_dict, keys)

\* C15 as claimed: clear(clear_parent=false) on C leaves C empty with size 0
\* and every key that was resident in C is resident in P with its value
\* afterwards, where P's capacity admits them all.  Stated for the keys
\* whose value is truthy, which is what the loop of clear copies.
C15_ClearCopiesToParent ==
    [][IsCall(last', "clear_keep_parent", "C", "") =>
          /\ DOMAIN cache'["C"].item_dict = {} /\ cache'["C"].size = 0
          /\ ~OverMax("P", SizeWithItemsOf(Resident("C"))) =>
                \A k \in Resident("C") :
                  Truthy(cache["C"].item_dict[k].stored_value) =>
                    /\ k \in DOMAIN cache'["P"].item_dict
                    /\ cache'["P"].item_dict[k].stored_value = cache["C"].item_dict[k].stored_value
      ]_vars

\* C13: when a store call (store_value, discard_value) raises inside
\* put_value or remove_value, also inside the trim of a put_value, every
\* cache is left with its size equal to the sum of stored_size over its
\* resident items: the key of the call is resident and counted, or absent
\* and not counted.
C13_SizeConsistentAfterStoreError ==
    last.exc = "StoreError" =>
        \A c \in CacheIds :
            /\ cache[c].size = ResidentSize(c)
            /\ Len(cache[c].item_list) = Cardinality(Resident(c))
            /\ cache[c].size = 0 <=> Resident(c) = {}

\* the store raised inside the trim of a put_value on the child: a victim is
\* gone and the key of the call is absent
C13_Witness ==
    /\ last.exc = "StoreError" /\ last.op = "put_value" /\ last.c = "C"
    /\ last.dropped # {} /\ last.key \notin last.dropped
    /\ last.key \notin Resident("C")

\* ------------------------------------------------------------- thread claims
\* C11 as claimed: with several threads on one cache, every call of
\* get_value, put_value, remove_value, trim and clear is atomic: between the
\* first and the last state change of a call no other thread's operation
\* takes effect on the cache and no other thread reads it.
C11_CallsAreAtomic ==
    ~last.torn

\* C11 amended: every call of get_value, put_value and remove_value is
\* atomic in that sense; only a trim called directly, between its victim
\* selection and its eviction loop, and a clear, between the calls of its
\* loop, let other threads in.
C11_LockedCallsAreAtomic ==
    last.torn => last.op \in {"trim", "clear", "clear_keep_parent"}

Range(seq) == {seq[i] : i \in DOMAIN seq}

\* a put_value ran from start to end, on a key that the trim of another
\* thread had selected and not yet evicted, and was not torn
C11_Witness ==
    /\ last.op = "put_value" /\ last.ended /\ ~last.torn /\ last.exc = NoExc
    /\ last.key \in Resident(last.c)
    /\ \E u \in Threads :
          u # last.t /\ thread[u].pc = "trim_evict" /\ last.key \in Range(thread[u].keys)

\* C12 as claimed: when another thread removed a selected victim from the
\* cache between the selection and the eviction of a directly called trim,
\* the eviction completes without error and changes no item but those of
\* its remaining victims, with or without a parent.
C12_TrimToleratesRemovedVictims ==
    [][\A t \in Threads :
        LET c == thread[t].c
            gone == Range(thread[t].keys) \ DOMAIN cache[c].item_dict
            others(d) == (DOMAIN cache[d].item_dict) \ (Range(thread[t].keys) \ gone)
        IN  (thread[t].pc = "trim_evict" /\ thread'[t].pc # "trim_evict" /\ gone # {}) =>
              /\ last'.exc = NoExc
              /\ \A d \in Chain(c) : \A k \in others(d) :
                    /\ k \in DOMAIN cache'[d].item_dict
                    /\ cache'[d].item_dict[k] = cache[d].item_dict[k]
      ]_vars

\* ------------------------------------------------------------- scenarios
\* S1 (LRU eviction): on a cache of capacity N without parent, put keys
\* 0..N-1, get key 0, put key N.  S2 (hierarchical promotion): put a, b, c
\* on the child.  The values that are put are free.
KeyName(i) == ToString(i)
S2Keys == <<"a", "b", "c">>

InitScript ==
    /\ InitCaches
    /\ NoImages
    /\ NoThreads
    /\ NoCalc
    /\ \/ /\ script = [name |-> "S1", pc |-> 0, puts |-> <<>>]
          /\ \E n \in 2..MaxKeys : cfg = Scripted([d \in CacheIds |-> n])
       \/ /\ script = [name |-> "S2", pc |-> 0, puts |-> <<>>]
          /\ cfg = Scripted([d \in CacheIds |-> IF d = "C" THEN 2 ELSE 4])

Advance(value) == [script EXCEPT !.pc = script.pc + 1, !.puts = Append(script.puts, value)]

S1N == cfg["P"].capacity

S1Put(value) ==
    /\ script.name = "S1"
    /\ script.pc < S1N \/ script.pc = S1N + 1
    /\ PutValue("P", KeyName(IF script.pc < S1N THEN script.pc ELSE S1N), value)
    /\ script' = Advance(value)

S1Get ==
    /\ script.name = "S1"
    /\ script.pc = S1N
    /\ GetValue("P", KeyName(0))
    /\ script' = Advance(None)

S2Put(value) ==
    /\ script.name = "S2"
    /\ script.pc < Len(S2Keys)
    /\ PutValue("C", S2Keys[script.pc + 1], value)
    /\ script' = Advance(value)

NextScript ==
    \/ \E value \in Values : S1Put(value)
    \/ S1Get
    \/ \E value \in Values : S2Put(value)

SpecScript == InitScript /\ [][NextScript]_vars

\* C6: LRU, threshold 1.0, unit-size store, capacity N >= 2: after putting
\* keys 0..N-1 in that order, reading key 0 and putting a new key, exactly
\* key 1 was evicted and the residents are 0, 2..N-1 and the new key.
C6_LruEvictsKey1 ==
    (script.name = "S1" /\ script.pc = S1N + 2) =>
        /\ last.dropped = {KeyName(1)}
        /\ Resident("P") = {KeyName(i) : i \in 0..S1N} \ {KeyName(1)}

\* the scenario of the spec has run: capacity 3, put 0, 1, 2, get 0, put 3
C6_Witness ==
    /\ script.name = "S1" /\ S1N = 3 /\ script.pc = S1N + 2
    /\ Resident("P") = {"0", "2", "3"}

\* C7 as claimed: child of capacity 2, parent of capacity 4, LRU, threshold
\* 1.0, unit-size store: after put_value of a, b, c on the child, the child
\* holds exactly {b, c} and the parent exactly {a}, with a's value.
C7_VictimPromotedToParent ==
    (script.name = "S2" /\ script.pc = Len(S2Keys)) =>
        /\ Resident("C") = {"b", "c"}
        /\ Resident("P") = {"a"}
        /\ cache["P"].item_dict["a"].stored_value = script.puts[1]

\* ------------------------------------------------------------- layout
\* the absent (None) size, tile size or tile count, and the absent array
NoSize == <<0, 0>>
NoArray == [shape |-> NoSize, chunks |-> NoSize]

Layout(max_size, tile_size, num_level_zero_tiles, num_levels) ==
    [max_size |-> max_size, tile_size |-> tile_size,
     num_level_zero_tiles |-> num_level_zero_tiles, num_levels |-> num_levels]

NoLayout == Layout(NoSize, NoSize, NoSize, 0)

\* the loop of compute_layout (lines 676-683): the number of levels
RECURSIVE layout_levels(_, _, _, _, _, _, _)
layout_levels(num_tiles_x, num_tiles_y, num_levels, tile_width, tile_height, max_width, max_height) ==
    IF num_tiles_x * tile_width >= max_width /\ num_tiles_y * tile_height >= max_height
    THEN num_levels
    ELSE layout_levels(num_tiles_x * 2, num_tiles_y * 2, num_levels + 1,
                       tile_width, tile_height, max_width, max_height)

\* array: the shape (width, height) and the chunks of the array, or NoArray
compute_layout(max_size, array, tile_size, int_div, num_level_zero_tiles, num_levels) ==
    LET size == array.shape
        max_size1 == IF array # NoArray /\ max_size = NoSize THEN size ELSE max_size
        max_width == max_size1[1]
        max_height == max_size1[2]
        \* lines 660-661 and 666-667: a tile size per axis; no array, no chunks
        derived == [axis \in 1..2 |->
                       compute_tile_size(max_size1[axis], TileSizeMin, TileSizeMax, TileSizeStep,
                                         array.chunks[axis], Absent, int_div)]
        tx == derived[1]
        ty == derived[2]
        tile_size1 == IF tile_size = NoSize THEN <<tx.ret, ty.ret>> ELSE tile_size
        tiles1 == IF num_level_zero_tiles = NoSize
                  THEN <<cardinal_div_round(max_width, max_height),
                         cardinal_div_round(max_height, max_width)>>
                  ELSE num_level_zero_tiles
        levels1 == IF num_levels = Absent
                   THEN layout_levels(tiles1[1], tiles1[2], 1, tile_size1[1], tile_size1[2],
                                      max_width, max_height)
                   ELSE num_levels
    IN  IF array # NoArray /\ max_size # NoSize /\ max_size # size
        THEN Result(NoLayout, "ValueError")
        ELSE IF max_size1 = NoSize THEN Result(NoLayout, "ValueError")
        ELSE IF tile_size = NoSize /\ tx.exc # NoExc THEN Result(NoLayout, tx.exc)
        ELSE IF tile_size = NoSize /\ ty.exc # NoExc THEN Result(NoLayout, ty.exc)
        ELSE IF num_level_zero_tiles = NoSize /\ (max_width = 0 \/ max_height = 0)
             THEN Result(NoLayout, "ZeroDivisionError")
        ELSE IF num_levels = Absent /\ (tiles1[1] * tile_size1[1] = 0 \/ tiles1[2] * tile_size1[2] = 0)
             \* doubling zero never reaches the size
             THEN Result(NoLayout, "no return")
        ELSE Result(Layout(max_size1, tile_size1, tiles1, levels1), NoExc)

\* what a pyramid factory returns: the images, the level images (level 0
\* first) and the layout the ImagePyramid reports
Built(imgs, level_images, layout, exc) ==
    [images |-> imgs, level_images |-> level_images, layout |-> layout, exc |-> exc]

\* the loop of create_from_image (lines 595-598), from level z_index down
RECURSIVE level_images_below(_, _, _, _, _, _)
level_images_below(imgs, source, higher_level, z_index, tile_cache, level_images) ==
    IF z_index < 0 THEN <<imgs, level_images>>
    ELSE LET level_image == create_ndarray_downsampling_image(imgs, source, higher_level,
                                                               z_index, tile_cache)
             imgs1 == Append(imgs, level_image)
         IN  level_images_below(imgs1, source, Len(imgs1), z_index - 1, tile_cache,
                                <<Len(imgs1)>> \o level_images)

\* create_from_image after its call of compute_layout, which returned r
image_pyramid(imgs, source, tile_cache, r) ==
    LET built == level_images_below(imgs, source, source, r.ret.num_levels - 2, tile_cache, <<source>>)
    IN  IF r.exc # NoExc THEN Built(imgs, <<>>, NoLayout, r.exc)
        ELSE Built(built[1], built[2],
                   Layout(r.ret.max_size, imgs[source].tile_size, r.ret.num_level_zero_tiles,
                          Len(built[2])), NoExc)

create_from_image(imgs, source, tile_cache) ==
    image_pyramid(imgs, source, tile_cache,
                  compute_layout(imgs[source].size, NoArray, imgs[source].tile_size, TRUE, NoSize, Absent))

\* the loop of create_from_array (lines 627-629), from level z_index down
RECURSIVE array_images_below(_, _, _, _, _, _, _)
array_images_below(imgs, array, tile_size, z_index, num_levels, tile_cache, level_images) ==
    IF z_index < 0 THEN <<imgs, level_images>>
    ELSE LET imgs1 == Append(imgs, FastNdarrayDownsamplingImage(array, tile_size, z_index,
                                                                num_levels, tile_cache))
         IN  array_images_below(imgs1, array, tile_size, z_index - 1, num_levels, tile_cache,
                                <<Len(imgs1)>> \o level_images)

\* create_from_array after its call of compute_layout, which returned r
array_pyramid(imgs, array, tile_cache, r) ==
    LET built == array_images_below(imgs, array, r.ret.tile_size, r.ret.num_levels - 1,
                                    r.ret.num_levels, tile_cache, <<>>)
    IN  IF r.exc # NoExc THEN Built(imgs, <<>>, NoLayout, r.exc)
        ELSE Built(built[1], built[2],
                   Layout(r.ret.max_size, r.ret.tile_size, r.ret.num_level_zero_tiles,
                          Len(built[2])), NoExc)

create_from_array(imgs, array, tile_size, tile_cache) ==
    array_pyramid(imgs, array, tile_cache,
                  compute_layout(NoSize, array, tile_size, TRUE, NoSize, Absent))

\* ------------------------------------------------------------- layout calls
\* calc: the call (op and arguments), whether it was made, and its result
TileSizeArgs(total_size, tile_size_min, tile_size_max, tile_size_step, chunk_size, num_levels_min, int_div) ==
    [total_size |-> total_size, tile_size_min |-> tile_size_min, tile_size_max |-> tile_size_max,
     tile_size_step |-> tile_size_step, chunk_size |-> chunk_size,
     num_levels_min |-> num_levels_min, int_div |-> int_div]

NoArgs == TileSizeArgs(0, 0, 0, 0, 0, 0, FALSE)

\* size: max_size, the size of the source image or the shape of the array
CalcCall(op, a, size, tile_size) ==
    [op |-> op, a |-> a, size |-> size, tile_size |-> tile_size,
     done |-> FALSE, ret |-> 0, layout |-> NoLayout, exc |-> NoExc]

\* the calls of compute_tile_size: those of scenario S3 and small ones
TileSizeCalls ==
    {CalcCall("compute_tile_size", a, NoSize, NoSize) : a \in
        {TileSizeArgs(2048, TileSizeMin, TileSizeMax, TileSizeStep, Absent, Absent, FALSE),
         TileSizeArgs(1000, TileSizeMin, TileSizeMax, TileSizeStep, Absent, Absent, TRUE)}
        \cup {TileSizeArgs(total, lo, hi, step, chunk, levels, int_div) :
                total \in 0..MaxTotal, lo \in 1..MaxTile, hi \in 1..MaxTile, step \in 1..2,
                chunk \in {Absent, 3}, levels \in 0..2, int_div \in BOOLEAN}}

\* positive sizes and tile sizes
Sizes == (1..MaxSide) \X (1..MaxSide)
TileSizes == (1..MaxTileSide) \X (1..MaxTileSide)

\* the calls with a size and a tile size: scenario S4 and small ones
SizedCalls(op) ==
    {CalcCall(op, NoArgs, <<4096, 2048>>, <<512, 512>>)}
        \cup {CalcCall(op, NoArgs, size, tile_size) : size \in Sizes, tile_size \in TileSizes}

ComputeTileSize ==
    /\ calc.op = "compute_tile_size" /\ ~calc.done
    /\ LET a == calc.a
           r == compute_tile_size(a.total_size, a.tile_size_min, a.tile_size_max, a.tile_size_step,
                                  a.chunk_size, a.num_levels_min, a.int_div)
       IN  calc' = [calc EXCEPT !.done = TRUE, !.ret = r.ret, !.exc = r.exc]
    /\ UNCHANGED <<cache, clock, cfg, last, script, images, pyramid, size0, lock, thread>>

\* compute_layout(max_size=..., tile_size=...)
ComputeLayout ==
    /\ calc.op = "compute_layout" /\ ~calc.done
    /\ LET r == compute_layout(calc.size, NoArray, calc.tile_size, TRUE, NoSize, Absent)
       IN  calc' = [calc EXCEPT !.done = TRUE, !.layout = r.ret, !.exc = r.exc]
    /\ UNCHANGED <<cache, clock, cfg, last, script, images, pyramid, size0, lock, thread>>

\* ImagePyramid.create_from_image(images[1], create_ndarray_downsampling_image)
CreateFromImage ==
    /\ calc.op = "create_from_image" /\ ~calc.done
    /\ LET b == create_from_image(images, 1, images[1].tile_cache)
       IN  /\ calc' = [calc EXCEPT !.done = TRUE, !.layout = b.layout, !.exc = b.exc]
           /\ images' = b.images
           /\ pyramid' = b.level_images
    /\ UNCHANGED <<cache, clock, cfg, last, script, size0, lock, thread>>

\* ImagePyramid.create_from_array(array, tile_size=...)
CreateFromArray ==
    /\ calc.op = "create_from_array" /\ ~calc.done
    /\ LET b == create_from_array(images, [shape |-> calc.size, chunks |-> NoSize],
                                  calc.tile_size, "C")
       IN  /\ calc' = [calc EXCEPT !.done = TRUE, !.layout = b.layout, !.exc = b.exc]
           /\ images' = b.images
           /\ pyramid' = b.level_images
    /\ UNCHANGED <<cache, clock, cfg, last, script, size0, lock, thread>>

\* a source image whose tile grid covers it
CoveringSource(size, tile_size) ==
    SourceImage(size, tile_size,
                <<cardinal_div_round(size[1], tile_size[1]), cardinal_div_round(size[2], tile_size[2])>>,
                "A", "C")

InitLayout ==
    /\ InitCaches
    /\ cfg = Scripted([d \in CacheIds |-> MaxCapacity])
    /\ script = NoScript
    /\ NoThreads
    /\ pyramid = <<>>
    /\ size0 = <<>>
    /\ calc \in TileSizeCalls \cup SizedCalls("compute_layout")
                 \cup SizedCalls("create_from_image") \cup SizedCalls("create_from_array")
    /\ images = IF calc.op = "create_from_image"
                THEN <<CoveringSource(calc.size, calc.tile_size)>>
                ELSE <<>>

NextLayout ==
    \/ ComputeTileSize
    \/ ComputeLayout
    \/ CreateFromImage
    \/ CreateFromArray

SpecLayout == InitLayout /\ [][NextLayout]_vars

\* ------------------------------------------------------------- array tiles
\* len(range(start, stop, step)) within a dimension of dim elements: the
\* length of array[start:stop:step]
SliceLen(start, stop, step, dim) ==
    LET end == IF stop < dim THEN stop ELSE dim
    IN  IF start >= end THEN 0 ELSE (end - start + step - 1) \div step

\* FastNdarrayDownsamplingImage.compute_tile: the size of the slice, and the
\* assertion on it
array_compute_tile(img, tile_x, tile_y) ==
    LET zoom == img.zoom
        x == img.tile_size[1] * tile_x * zoom
        y == img.tile_size[2] * tile_y * zoom
        w == img.tile_size[1] * zoom
        h == img.tile_size[2] * zoom
        actual_tile_size == <<SliceLen(x, x + w, zoom, img.array.shape[1]),
                              SliceLen(y, y + h, zoom, img.array.shape[2])>>
    IN  [shape |-> actual_tile_size,
         exc |-> IF img.tile_size = actual_tile_size THEN NoExc ELSE "AssertionError"]

\* compute_tile(tile_x, tile_y) on the level image of level z_index
ArrayComputeTile(z_index, tile_x, tile_y) ==
    /\ calc.done /\ calc.exc = NoExc
    /\ z_index + 1 \in DOMAIN pyramid
    /\ InGrid(images[pyramid[z_index + 1]], tile_x, tile_y)
    /\ LET i == pyramid[z_index + 1]
           r == array_compute_tile(images[i], tile_x, tile_y)
       IN  last' = [Call("compute_tile", images[i].tile_cache, get_tile_id(images[i].id, tile_x, tile_y),
                         None, None, r.exc, {})
                      EXCEPT !.img = i, !.x = tile_x, !.y = tile_y, !.shape = r.shape]
    /\ UNCHANGED <<cache, clock, cfg, script, images, pyramid, size0, lock, thread, calc>>

\* the shapes (width, height) of the arrays: small ones and three larger
ArrayShapes == Sizes \cup {<<4096, 2048>>, <<1000, 500>>, <<2000, 300>>}

\* ImagePyramid.create_from_array(array): the layout is derived
InitArray ==
    /\ InitCaches
    /\ cfg = Scripted([d \in CacheIds |-> MaxCapacity])
    /\ script = NoScript
    /\ NoImages
    /\ NoThreads
    /\ calc \in {CalcCall("create_from_array", NoArgs, shape, NoSize) : shape \in ArrayShapes}

\* the tiles of a level: at most MaxArrayTiles per axis
MaxArrayTiles == 16

NextArray ==
    \/ CreateFromArray
    \/ \E z_index \in 0..MaxArrayTiles, tile_x \in 0..(MaxArrayTiles - 1), tile_y \in 0..(MaxArrayTiles - 1) :
          ArrayComputeTile(z_index, tile_x, tile_y)

SpecArray == InitArray /\ [][NextArray]_vars

\* C16 as claimed: whenever compute_tile_size returns a value for a
\* non-negative total_size and tile_size_min <= tile_size_max, the value
\* lies in [tile_size_min, tile_size_max].
C16_TileSizeInRange ==
    (calc.op = "compute_tile_size" /\ calc.done /\ calc.exc = NoExc
        /\ calc.a.tile_size_min <= calc.a.tile_size_max) =>
        /\ calc.a.tile_size_min <= calc.ret
        /\ calc.ret <= calc.a.tile_size_max

\* C17 as claimed: compute_tile_size(2048, 180, 512, 2) returns 512 and
\* compute_tile_size(1000, 180, 512, 2, int_div=true) returns 500.
C17_S3Returns512And500 ==
    (calc.op = "compute_tile_size" /\ calc.done
        /\ calc.a.tile_size_min = TileSizeMin /\ calc.a.tile_size_max = TileSizeMax) =>
        /\ calc.exc = NoExc
        /\ calc.a.total_size = 2048 => calc.ret = 512
        /\ calc.a.total_size = 1000 => calc.ret = 500

\* C17 amended: compute_tile_size(2048, 180, 512, 2) returns 256 and
\* compute_tile_size(1000, 180, 512, 2, int_div=true) returns 250.
C17_S3Returns256And250 ==
    (calc.op = "compute_tile_size" /\ calc.done
        /\ calc.a.tile_size_min = TileSizeMin /\ calc.a.tile_size_max = TileSizeMax) =>
        /\ calc.exc = NoExc
        /\ calc.a.total_size = 2048 => calc.ret = 256
        /\ calc.a.total_size = 1000 => calc.ret = 250

\* the second call of scenario S3 was made
C17_Witness ==
    /\ calc.op = "compute_tile_size" /\ calc.done /\ calc.exc = NoExc
    /\ calc.a = TileSizeArgs(1000, TileSizeMin, TileSizeMax, TileSizeStep, Absent, Absent, TRUE)
    /\ calc.ret * 4 = calc.a.total_size

\* ------------------------------------------------------------- layout claims
\* ceil(a / b) for positive a and b
Ceil(a, b) == CHOOSE q \in 0..a : q * b >= a /\ (q - 1) * b < a

RECURSIVE Pow2(_)
Pow2(n) == IF n = 0 THEN 1 ELSE 2 * Pow2(n - 1)

\* a pyramid of L levels over num_level_zero_tiles reaches the size
Reaches(L, num_level_zero_tiles, tile_size, size) ==
    /\ num_level_zero_tiles[1] * Pow2(L - 1) * tile_size[1] >= size[1]
    /\ num_level_zero_tiles[2] * Pow2(L - 1) * tile_size[2] >= size[2]

\* C18: compute_layout with a positive max_size = (W, H) and a positive
\* tile_size only returns num_level_zero_tiles = (ceil(W/H), ceil(H/W)) and
\* as num_levels the smallest L >= 1 with which the level-zero tiles,
\* doubled L-1 times, reach W and H; for 4096x2048 and tile 512 that is
\* (2, 1) and 3 levels.
C18_LayoutFromSizeAndTileSize ==
    (calc.op = "compute_layout" /\ calc.done) =>
        LET tiles == calc.layout.num_level_zero_tiles
            L == calc.layout.num_levels
        IN  /\ calc.exc = NoExc
            /\ calc.layout.max_size = calc.size /\ calc.layout.tile_size = calc.tile_size
            /\ tiles = <<Ceil(calc.size[1], calc.size[2]), Ceil(calc.size[2], calc.size[1])>>
            /\ L >= 1 /\ Reaches(L, tiles, calc.tile_size, calc.size)
            /\ \A M \in 1..(L - 1) : ~Reaches(M, tiles, calc.tile_size, calc.size)
            /\ (calc.size = <<4096, 2048>> /\ calc.tile_size = <<512, 512>>) =>
                  tiles = <<2, 1>> /\ L = 3

\* the layout of scenario S4 was computed
C18_Witness ==
    /\ calc.op = "compute_layout" /\ calc.done /\ calc.exc = NoExc
    /\ calc.size = <<4096, 2048>> /\ calc.tile_size = <<512, 512>>
    /\ calc.layout.num_level_zero_tiles = <<2, 1>> /\ calc.layout.num_levels = 3

PyramidBuilt ==
    calc.op \in {"create_from_image", "create_from_array"} /\ calc.done /\ calc.exc = NoExc

\* C19 as claimed: in every pyramid built by create_from_image or
\* create_from_array with a derived layout, the tile grid of every level
\* image covers the image: num_tiles times tile size >= size on both axes.
C19_LevelGridsCoverImages ==
    PyramidBuilt =>
        \A z \in DOMAIN pyramid :
            LET image == images[pyramid[z]]
            IN  /\ image.num_tiles[1] * image.tile_size[1] >= image.size[1]
                /\ image.num_tiles[2] * image.tile_size[2] >= image.size[2]

\* C20 as claimed: in every such pyramid the level image of level z reports
\* num_tiles = num_level_zero_tiles * 2^z on both axes, with the
\* num_level_zero_tiles the pyramid reports.
C20_LevelTilesDouble ==
    PyramidBuilt =>
        \A z \in DOMAIN pyramid :
            images[pyramid[z]].num_tiles =
                <<calc.layout.num_level_zero_tiles[1] * Pow2(z - 1),
                  calc.layout.num_level_zero_tiles[2] * Pow2(z - 1)>>

\* ------------------------------------------------------------- image claims
\* C8 as claimed: two successive get_tile(x, y) calls on an image with a
\* cache return the same payload and the second never calls compute_tile.
C8_SecondGetTileIsCached ==
    (last.op = "get_tile" /\ last.again) =>
        /\ last.exc = NoExc
        /\ last.ret = last.before
        /\ last.computes = 0

\* C8 amended: two successive get_tile(x, y) calls of which the first
\* returned a tile (not null) return the same payload, and the second
\* never calls compute_tile.
C8_SecondGetTileOfATileIsCached ==
    (last.op = "get_tile" /\ last.again /\ last.before # None) =>
        /\ last.exc = NoExc
        /\ last.ret = last.before
        /\ last.computes = 0

\* the decorator image returned its tile a second time
C8_Witness ==
    /\ last.op = "get_tile" /\ last.again /\ last.before # None
    /\ images[last.img].kind = "decorator"
    /\ last.ret = Payload(TileTag(last.img, last.x, last.y), last.ret.nbytes)
    /\ last.computes = 0

\* C9 as claimed: images sharing a cache never produce the same tile id, so
\* what the cache holds under a tile id of an image is a tile that image
\* computed: no image is handed, or overwrites, the tile of another.
C9_TilesKeptApart ==
    \A i \in DOMAIN images, x \in Coords, y \in Coords :
        LET c == images[i].tile_cache
            tile_id == get_tile_id(images[i].id, x, y)
        IN  tile_id \in Resident(c) =>
              \/ cache[c].item_dict[tile_id].stored_value = None
              \/ cache[c].item_dict[tile_id].stored_value.tag = TileTag(i, x, y)

\* the tile ids of image i inside its grid, and with any coordinates
GridIds(i) ==
    {get_tile_id(images[i].id, x, y) : x \in 0..(images[i].num_tiles[1] - 1),
                                       y \in 0..(images[i].num_tiles[2] - 1)}
AllIds(i) == {get_tile_id(images[i].id, x, y) : x \in Coords, y \in Coords}

\* C10 as claimed: after dispose() of an image no tile id of it is resident
\* in its cache and the cache's size is what it was before the image's
\* tiles were fetched; after the pyramid's dispose() no tile of a level
\* image is resident.
C10_DisposeRestoresCache ==
    /\ last.op = "dispose" =>
         /\ AllIds(last.img) \cap Resident(last.c) = {}
         /\ last.mark # NotFetched => cache[last.c].size = last.mark
    /\ last.op = "pyramid_dispose" =>
         \A z \in DOMAIN pyramid : AllIds(pyramid[z]) \cap Resident(last.c) = {}

\* C10 amended: after dispose() of an image no tile id inside its grid is
\* resident in its cache (or the cache's parent), and dispose() lowers the
\* cache's size by exactly the stored sizes of the items that were resident
\* under those tile ids; after the pyramid's dispose() no tile id inside
\* the grid of a level image is resident.
C10_DisposeDropsGridTiles ==
    [][/\ last'.op = "dispose" =>
            LET c == last'.c
                ids == GridIds(last'.img)
            IN  /\ \A d \in CacheIds : ids \cap DOMAIN cache'[d].item_dict = {}
                /\ cache'[c].size = cache[c].size - SumSizes(cache[c].item_dict, ids \cap Resident(c))
       /\ last'.op = "pyramid_dispose" =>
            \A z \in DOMAIN pyramid, d \in CacheIds :
                GridIds(pyramid[z]) \cap DOMAIN cache'[d].item_dict = {}
      ]_vars

\* an image whose tiles were fetched was disposed and its tiles left the cache
C10_Witness ==
    /\ last.op = "dispose" /\ last.mark # NotFetched
    /\ last.dropped # {} /\ last.dropped \subseteq GridIds(last.img)

\* ------------------------------------------------------------- pixels
\* An ndarray tile: shape is (rows, columns), at[<<row, column>>] a pixel.
\* A pixel of the source image is named by its place in that image,
\* <<column, row>>; Uninitialized is what numpy.empty_like leaves.
Uninitialized == <<0 - 1, 0 - 1>>

\* the indices <<row, column>> of an array of that shape
Indices(rows, columns) == (0..(rows - 1)) \X (0..(columns - 1))

Tile(rows, columns, at) == [shape |-> <<rows, columns>>, at |-> at]

NoTile == [shape |-> <<0, 0>>, at |-> <<>>]

\* get_tile of the source image: the rectangle (tw * x, th * y, tw, th) of
\* the image inside the grid, null outside
source_get_tile(num_tiles, tile_size, tile_x, tile_y) ==
    IF tile_x < num_tiles[1] /\ tile_y < num_tiles[2]
    THEN LET pixel(row, column) == <<tile_size[1] * tile_x + column, tile_size[2] * tile_y + row>>
         IN  Tile(tile_size[2], tile_size[1],
                  [p \in Indices(tile_size[2], tile_size[1]) |-> pixel(p[1], p[2])])
    ELSE NoTile

\* a[..., 1::2, 1::2]
downsample_ndarrayMut(a) ==
    LET pixel(row, column) == a.at[<<2 * row + 1, 2 * column + 1>>]
        rows == a.shape[1] \div 2
        columns == a.shape[2] \div 2
    IN  Tile(rows, columns, [p \in Indices(rows, columns) |-> pixel(p[1], p[2])])
\* aggregate_ndarray_first: a[..., 0::2, 0::2]
downsample_ndarray(a) ==
    LET pixel(row, column) == a.at[<<2 * row, 2 * column>>]
        rows == (a.shape[1] + 1) \div 2
        columns == (a.shape[2] + 1) \div 2
    IN  Tile(rows, columns, [p \in Indices(rows, columns) |-> pixel(p[1], p[2])])

\* the aggregated tiles that were assigned to the pixel (row, column) of
\* the target tile
Assigned(agg_tiles, target_positions, row, column) ==
    {i \in 1..Len(agg_tiles) :
        /\ target_positions[i][2] <= row
        /\ row < target_positions[i][2] + agg_tiles[i].shape[1]
        /\ target_positions[i][1] <= column
        /\ column < target_positions[i][1] + agg_tiles[i].shape[2]}

\* a later assignment overwrites an earlier one
aggregate_and_stitch_source_tiles(source_tiles, target_size, target_positions) ==
    LET agg_tiles == [i \in 1..Len(source_tiles) |-> downsample_ndarray(source_tiles[i])]
        prototype_tile == source_tiles[1]
        pixel(row, column) ==
            LET from == Assigned(agg_tiles, target_positions, row, column)
                i == CHOOSE k \in from : \A l \in from : l <= k
            IN  IF from = {} THEN Uninitialized
                ELSE agg_tiles[i].at[<<row - target_positions[i][2], column - target_positions[i][1]>>]
        rows == prototype_tile.shape[1]
        columns == prototype_tile.shape[2]
    IN  Tile(rows, columns, [p \in Indices(rows, columns) |-> pixel(p[1], p[2])])

\* DownsamplingImage.compute_tile over a source image of num_tiles tiles
downsampling_compute_tile(num_tiles, tile_size, tile_x, tile_y) ==
    LET source_tile_x == 2 * tile_x
        source_tile_y == 2 * tile_y
        source_tiles == <<source_get_tile(num_tiles, tile_size, source_tile_x, source_tile_y),
                          source_get_tile(num_tiles, tile_size, source_tile_x, source_tile_y + 1),
                          source_get_tile(num_tiles, tile_size, source_tile_x + 1, source_tile_y),
                          source_get_tile(num_tiles, tile_size, source_tile_x + 1, source_tile_y + 1)>>
        target_positions == <<<<0, 0>>, <<0, tile_size[2] \div 2>>,
                              <<tile_size[1] \div 2, 0>>,
                              <<tile_size[1] \div 2, tile_size[2] \div 2>>>>
    IN  IF \E i \in 1..4 : source_tiles[i] = NoTile
        \* downsample_ndarray subscripts the null tile
        THEN [tile |-> NoTile, exc |-> "TypeError"]
        ELSE [tile |-> aggregate_and_stitch_source_tiles(source_tiles, tile_size, target_positions),
              exc |-> NoExc]

\* a call of compute_tile(x, y) on the downsampling image of a source image
PixelCall(num_tiles, tile_size, x, y) ==
    [op |-> "compute_tile", num_tiles |-> num_tiles, tile_size |-> tile_size,
     x |-> x, y |-> y, done |-> FALSE, tile |-> NoTile, exc |-> NoExc]

PixelCalls ==
    {PixelCall(<<nx, ny>>, <<tw, th>>, x, y) :
        nx \in 1..MaxGrid, ny \in 1..MaxGrid, tw \in 1..MaxPixels, th \in 1..MaxPixels,
        x \in 0..(MaxGrid \div 2), y \in 0..(MaxGrid \div 2)}

ComputeTile ==
    /\ ~calc.done
    /\ LET r == downsampling_compute_tile(calc.num_tiles, calc.tile_size, calc.x, calc.y)
       IN  calc' = [calc EXCEPT !.done = TRUE, !.tile = r.tile, !.exc = r.exc]
    /\ UNCHANGED <<cache, clock, cfg, last, script, images, pyramid, size0, lock, thread>>

InitPixels ==
    /\ InitCaches
    /\ cfg = Scripted([d \in CacheIds |-> MaxCapacity])
    /\ script = NoScript
    /\ NoImages
    /\ NoThreads
    /\ calc \in PixelCalls

NextPixels == ComputeTile

SpecPixels == InitPixels /\ [][NextPixels]_vars

\* ------------------------------------------------------------- tile threads
\* Threads 1..MaxThreads call get_tile on the images of one tile cache.  A
\* step of a thread is one call of the cache, get_value or put_value, under
\* the cache's RLock, together with what the thread computes without the
\* cache before its next call of it.  thread[t].stack holds the get_tile
\* calls the thread is in, the innermost first: a frame is at its get_value
\* or at its put_value, and a downsampler collects its source tiles in acc.
Frame(i, tile_x, tile_y) ==
    [i |-> i, x |-> tile_x, y |-> tile_y, phase |-> "get_value", tile |-> None, acc |-> <<>>]

\* where a thread is after a step: the frames left, the exception raised,
\* and the tile the outermost get_tile returned when no frame is left
Progress(stack, ret, exc) == [stack |-> stack, ret |-> ret, exc |-> exc]

\* DownsamplingImage.compute_tile asks for the source tiles (2x, 2y),
\* (2x, 2y + 1), (2x + 1, 2y), (2x + 1, 2y + 1), in that order
source_tile(f, n) == <<2 * f.x + ((n - 1) \div 2), 2 * f.y + ((n - 1) % 2)>>

\* a get_tile returned tile to the compute_tile that called it: the frame
\* on top of stack
returned(imgs, stack, tile) ==
    IF stack = <<>> THEN Progress(<<>>, tile, NoExc)
    ELSE LET f == Head(stack)
             acc == Append(f.acc, tile)
             put(target_tile) ==
                 Progress(<<[f EXCEPT !.phase = "put_value", !.tile = target_tile, !.acc = <<>>]>>
                              \o Tail(stack), None, NoExc)
         IN  IF imgs[f.i].kind = "decorator"
             THEN put(IF tile = None THEN None
                      ELSE Payload(TileTag(f.i, f.x, f.y), tile.nbytes))
             ELSE IF Len(acc) < 4
             THEN Progress(<<Frame(imgs[f.i].source, source_tile(f, Len(acc) + 1)[1],
                                   source_tile(f, Len(acc) + 1)[2]),
                             [f EXCEPT !.acc = acc]>> \o Tail(stack), None, NoExc)
             ELSE IF None \in Range(acc)
             \* downsample_ndarray subscripts the null tile
             THEN Progress(stack, None, "TypeError")
             ELSE put(Payload(TileTag(f.i, f.x, f.y), acc[1].nbytes))

\* the get_value of the frame on top of stack found no tile: compute_tile
missed(imgs, stack) ==
    LET f == Head(stack)
        img == imgs[f.i]
    IN  CASE img.kind = "source" ->
               Progress(<<[f EXCEPT !.phase = "put_value",
                                    !.tile = IF InGrid(img, f.x, f.y)
                                             THEN Payload(TileTag(f.i, f.x, f.y), TileBytes(f.x, f.y))
                                             ELSE None]>> \o Tail(stack), None, NoExc)
          [] img.kind = "decorator" ->
               Progress(<<Frame(img.source, f.x, f.y)>> \o stack, None, NoExc)
          [] OTHER ->
               Progress(<<Frame(img.source, source_tile(f, 1)[1], source_tile(f, 1)[2])>> \o stack,
                        None, NoExc)

\* call: <<i, tile_x, tile_y>> of the get_tile the thread is in or was in
\* last; with: the threads whose get_tile of the same tile ran while this
\* one did; fresh: the tile was in no cache when the first of them began;
\* calls: the get_tile calls the thread has made
IdleTiler == [pc |-> "idle", stack |-> <<>>, call |-> <<0, 0, 0>>, ret |-> None, with |-> {}, fresh |-> FALSE, calls |-> 0]

TileId(call) == get_tile_id(images[call[1]].id, call[2], call[3])

Uncached(c, tile_id) == \A d \in Chain(c) : tile_id \notin DOMAIN cache[d].item_dict

\* thread t calls images[i].get_tile(tile_x, tile_y)
TGetTile(t, i, tile_x, tile_y) ==
    LET call == <<i, tile_x, tile_y>>
        same == {u \in Threads \ {t} : thread[u].pc = "get_tile" /\ thread[u].call = call}
    IN  /\ thread[t].pc = "idle" /\ thread[t].calls < MaxTileCalls
        /\ thread' = [u \in Threads |->
                        IF u = t
                        THEN [IdleTiler EXCEPT !.pc = "get_tile", !.stack = <<Frame(i, tile_x, tile_y)>>,
                                               !.call = call, !.with = same,
                                               !.calls = thread[t].calls + 1,
                                               !.fresh = IF same = {}
                                                         THEN Uncached(images[i].tile_cache, TileId(call))
                                                         ELSE \E u2 \in same : thread[u2].fresh]
                        ELSE IF u \in same THEN [thread[u] EXCEPT !.with = @ \cup {t}]
                        ELSE thread[u]]
        /\ last' = [Call("get_tile", images[i].tile_cache, TileId(call), None, None, NoExc, {})
                      EXCEPT !.t = t, !.img = i, !.x = tile_x, !.y = tile_y, !.ended = FALSE]
        /\ UNCHANGED <<cache, clock, cfg, script, images, pyramid, size0, lock, calc>>

\* thread t has made its call of the cache, which left heap h and the
\* thread at o, with held acquisitions of the lock unanswered
TileStep(t, c, h, o, held) ==
    /\ cache' = h.cache
    /\ clock' = h.clock
    /\ lock' = Acquired(t, c, held)
    /\ thread' = [thread EXCEPT ![t] =
                    [@ EXCEPT !.pc = IF o.exc # NoExc THEN "raised"
                                     ELSE IF o.stack = <<>> THEN "idle" ELSE "get_tile",
                              !.stack = o.stack, !.ret = o.ret]]
    /\ last' = [Call("get_tile", c, TileId(thread[t].call), None, o.ret, o.exc, Dropped(c, h))
                  EXCEPT !.t = t, !.img = thread[t].call[1], !.x = thread[t].call[2],
                         !.y = thread[t].call[3],
                         !.ended = o.exc # NoExc \/ o.stack = <<>>]
    /\ UNCHANGED <<cfg, script, images, pyramid, size0, calc>>

\* get_tile, line 191: cache.get_value(tile_id); an exception leaves the
\* lock acquired
TTileGetValue(t) ==
    /\ thread[t].pc = "get_tile" /\ Head(thread[t].stack).phase = "get_value"
    /\ LET f == Head(thread[t].stack)
           c == images[f.i].tile_cache
           r == get_value(cfg, Heap(cache, clock), c, get_tile_id(images[f.i].id, f.x, f.y))
       IN  /\ Acquirable(t, c)
           /\ TileStep(t, c, Raise(r.h, r.exc),
                       IF r.exc # NoExc THEN Progress(thread[t].stack, None, r.exc)
                       ELSE IF r.value # None THEN returned(images, Tail(thread[t].stack), r.value)
                       ELSE missed(images, thread[t].stack),
                       IF r.exc # NoExc THEN 1 ELSE 0)

\* get_tile, lines 196-198: cache.put_value(tile_id, tile); return tile
TTilePutValue(t) ==
    /\ thread[t].pc = "get_tile" /\ Head(thread[t].stack).phase = "put_value"
    /\ LET f == Head(thread[t].stack)
           c == images[f.i].tile_cache
           h == put_value(cfg, Heap(cache, clock), c, get_tile_id(images[f.i].id, f.x, f.y), f.tile)
       IN  /\ Acquirable(t, c)
           /\ TileStep(t, c, h,
                       IF Raised(h) THEN Progress(thread[t].stack, None, h.exc)
                       ELSE returned(images, Tail(thread[t].stack), f.tile),
                       IF Raised(h) THEN 1 ELSE 0)

InitTilers ==
    /\ InitCaches
    /\ cfg \in ImageConfigs
    /\ script = NoScript
    /\ \E c \in CacheIds, id_a \in {"", "A"}, id_b \in {"", "B"} :
         images = Scene(c, id_a, id_b)
    /\ pyramid = <<2, 1>>
    /\ size0 = [i \in 1..4 |-> NotFetched]
    /\ lock = [c \in CacheIds |-> FreeLock]
    /\ thread = [t \in Threads |-> IdleTiler]
    /\ NoCalc

NextTilers ==
    \/ \E t \in Threads, i \in DOMAIN images, tile_x \in Coords, tile_y \in Coords :
          Fetching /\ TGetTile(t, i, tile_x, tile_y)
    \/ \E t \in Threads : TTileGetValue(t)
    \/ \E t \in Threads : TTilePutValue(t)

SpecTilers == InitTilers /\ [][NextTilers]_vars

\* ------------------------------------------------------------- tile claims
\* the source tiles image i needs for its tile (x, y)
SourceTiles(i, x, y) ==
    IF images[i].kind = "decorator" THEN {<<x, y>>}
    ELSE IF images[i].kind = "downsampling"
    THEN {<<2 * x, 2 * y>>, <<2 * x, 2 * y + 1>>, <<2 * x + 1, 2 * y>>, <<2 * x + 1, 2 * y + 1>>}
    ELSE {}

\* a source tile that image i needs for (x, y) is null: the source images
\* of the scene return null for the tiles outside their grid
NullSourceTile(i, x, y) ==
    \E t \in SourceTiles(i, x, y) :
        images[images[i].source].kind = "source" /\ ~InGrid(images[images[i].source], t[1], t[2])

\* C21 as claimed: when source.get_tile returns null for a tile a dependent
\* image needs (the source tile of a DecoratorImage, one of the four source
\* tiles of a DownsamplingImage), the dependent image's get_tile returns
\* null and does not fail.
C21_NullSourceTilePropagates ==
    (last.op = "get_tile" /\ NullSourceTile(last.img, last.x, last.y)) =>
        /\ last.exc = NoExc
        /\ last.ret = None

\* tile (x, y) lies inside the grid of the downsampling image
InDownsampledGrid ==
    calc.x < calc.num_tiles[1] \div 2 /\ calc.y < calc.num_tiles[2] \div 2

\* C22: for an ndarray DownsamplingImage with the first aggregator over a
\* source with even tile width tw and height th, for every tile (x, y)
\* inside the downsampled grid the four gathered source tiles lie inside
\* the source grid, and pixel (i, j) of the resulting tile is the source
\* image's pixel at (2(x tw + i), 2(y th + j)).
C22_DownsampledPixels ==
    (calc.op = "compute_tile" /\ calc.done /\ InDownsampledGrid
        /\ calc.tile_size[1] % 2 = 0 /\ calc.tile_size[2] % 2 = 0) =>
        /\ 2 * calc.x + 1 < calc.num_tiles[1] /\ 2 * calc.y + 1 < calc.num_tiles[2]
        /\ calc.exc = NoExc
        /\ calc.tile.shape = <<calc.tile_size[2], calc.tile_size[1]>>
        /\ \A i \in 0..(calc.tile_size[1] - 1), j \in 0..(calc.tile_size[2] - 1) :
              calc.tile.at[<<j, i>>] =
                  <<2 * (calc.x * calc.tile_size[1] + i), 2 * (calc.y * calc.tile_size[2] + j)>>

\* a tile of 4x2 pixels away from the origin was computed
C22_Witness ==
    /\ calc.op = "compute_tile" /\ calc.done /\ calc.exc = NoExc
    /\ calc.x = 1 /\ calc.y = 0 /\ calc.tile_size = <<4, 2>>
    /\ calc.tile.at[<<1, 3>>] = <<14, 2>>

\* ------------------------------------------------------------- pyramid claims
\* C23: create_from_image returns a pyramid of exactly num_levels level
\* images, the number compute_layout derives; level num_levels-1 is the
\* source image itself and every level z below it is the image the factory
\* built from level z+1: a downsampling image with the tile size of level
\* z+1 and half its width, height and tile counts (integer division).
C23_LevelsChainFromSource ==
    (calc.op = "create_from_image" /\ calc.done /\ calc.exc = NoExc) =>
        LET L == Len(pyramid)
            tiles == <<Ceil(calc.size[1], calc.size[2]), Ceil(calc.size[2], calc.size[1])>>
        IN  /\ L >= 1 /\ Reaches(L, tiles, calc.tile_size, calc.size)
            /\ \A M \in 1..(L - 1) : ~Reaches(M, tiles, calc.tile_size, calc.size)
            /\ calc.layout.num_levels = L
            /\ pyramid[L] = 1
            /\ images[1] = CoveringSource(calc.size, calc.tile_size)
            /\ \A z \in 1..(L - 1) :
                  LET level == images[pyramid[z]]
                      higher == images[pyramid[z + 1]]
                  IN  /\ level.kind = "downsampling"
                      /\ level.source = pyramid[z + 1]
                      /\ level.tile_size = higher.tile_size
                      /\ level.size = <<higher.size[1] \div 2, higher.size[2] \div 2>>
                      /\ level.num_tiles = <<higher.num_tiles[1] \div 2, higher.num_tiles[2] \div 2>>

\* a pyramid of three levels was built from a source image
C23_Witness ==
    /\ calc.op = "create_from_image" /\ calc.done /\ calc.exc = NoExc
    /\ Len(pyramid) = 3
    /\ images[pyramid[1]].source = pyramid[2] /\ images[pyramid[2]].source = pyramid[3]

\* ------------------------------------------------------------- trim claims
\* the policy keys as the policies are described
DescribedKey(policy, item) ==
    IF policy = "LRU" THEN item.access_time
    ELSE IF policy = "MRU" THEN 0 - item.access_time
    ELSE IF policy = "LFU" THEN item.access_count
    ELSE item.access_count % 2

\* the items of list that come before list[i] when the list is sorted
\* ascending by the policy key, ties in the order of the list
Before(policy, list, i) ==
    {j \in DOMAIN list :
        \/ DescribedKey(policy, list[j]) < DescribedKey(policy, list[i])
        \/ DescribedKey(policy, list[j]) = DescribedKey(policy, list[i]) /\ j < i}

\* the first n items of the sorted list
Prefix(policy, list, n) ==
    {i \in DOMAIN list : Cardinality(Before(policy, list, i)) < n}

RECURSIVE SumStored(_, _)
SumStored(list, indices) ==
    IF indices = {} THEN 0
    ELSE LET i == CHOOSE x \in indices : TRUE
         IN  list[i].stored_size + SumStored(list, indices \ {i})

\* without the first n items of the sorted list, size + extra_size <= max_size
Fits(c, n, extra_size) ==
    (cache[c].size - SumStored(cache[c].item_list, Prefix(cfg[c].policy, cache[c].item_list, n))
        + extra_size) * ThresholdDen <= cfg[c].capacity * cfg[c].threshold

\* the length of the shortest prefix that fits; all items when none does
Shortest(c, extra_size) ==
    LET all == Len(cache[c].item_list)
    IN  IF \E n \in 0..all : Fits(c, n, extra_size)
        THEN CHOOSE n \in 0..all :
                 Fits(c, n, extra_size) /\ \A m \in 0..(n - 1) : ~Fits(c, m, extra_size)
        ELSE all

\* C24: trim(extra_size) on a cache with no concurrent activity evicts
\* exactly the shortest prefix of the resident items, sorted ascending by
\* the policy key with ties in the list's previous order, whose removal
\* makes size + extra_size <= max_size; all items when no prefix suffices
\* and none when size + extra_size <= max_size holds already.
C24_TrimEvictsShortestPrefix ==
    [][last'.op = "trim" =>
         LET c == last'.c
             list == cache[c].item_list
             n == Shortest(c, last'.value.nbytes)
             victims == {list[i].key : i \in Prefix(cfg[c].policy, list, n)}
         IN  /\ last'.exc = NoExc
             /\ DOMAIN cache'[c].item_dict = (DOMAIN cache[c].item_dict) \ victims
             /\ last'.dropped = victims
             /\ Fits(c, 0, last'.value.nbytes) => cache'[c].item_dict = cache[c].item_dict
      ]_vars

\* a trim under MRU evicted one of three resident items: the one put last
C24_Witness ==
    /\ last.op = "trim" /\ cfg[last.c].policy = "MRU"
    /\ Cardinality(last.dropped) = 1 /\ Cardinality(Resident(last.c)) = 2
    /\ \A k \in Resident(last.c) : cache[last.c].item_dict[k].access_time < 3

\* the places of a call in the log of the last trim
Places(call, c, key) ==
    {i \in DOMAIN last.log : last.log[i] = <<call, c, key>>}

\* C25 as claimed: during trim on a cache that has a parent, for each
\* victim parent.put_value is called with the victim's value before the
\* victim is removed from the child.
C25_PromotedBeforeRemoved ==
    (last.op = "trim" /\ parent_cache(last.c) # NoParent) =>
        \A key \in last.dropped :
            \A i \in Places("_remove_item", last.c, key) :
                \E j \in Places("put_value", parent_cache(last.c), key) : j < i

\* ------------------------------------------------------------- tile size claims
\* the candidates of the search and those that pass its two filters
Candidates(a) ==
    {ts \in a.tile_size_min..a.tile_size_max : (ts - a.tile_size_min) % a.tile_size_step = 0}

Passing(a) ==
    {ts \in Candidates(a) :
        /\ a.int_div => a.total_size % ts = 0
        /\ a.num_levels_min # Absent =>
              cardinal_log2(Ceil(a.total_size, ts) * ts) >= a.num_levels_min}

Penalty(a, ts) ==
    ts * Ceil(a.total_size, ts) - a.total_size
        + IF a.chunk_size # Absent THEN ts * Ceil(ts, a.chunk_size) - ts ELSE 0

\* the result of the natural halving is not returned
Rejected(a) ==
    LET series == halve(a.total_size, 0, a.tile_size_min)
    IN  ~(series[1] <= a.tile_size_max
            /\ (a.num_levels_min = Absent \/ series[2] >= a.num_levels_min))

\* the candidate the search is to return
Best(a) ==
    CHOOSE ts \in Passing(a) :
        \A other \in Passing(a) :
            \/ Penalty(a, ts) < Penalty(a, other)
            \/ Penalty(a, ts) = Penalty(a, other) /\ ts <= other

\* C26 as claimed: when the result of the natural halving is rejected,
\* compute_tile_size returns the candidate that passes the int_div and
\* num_levels_min filters with the least penalty, the smallest one on
\* ties, and raises an error only when no candidate passes the filters.
\* Stated for positive total sizes.
C26_SearchReturnsLeastPenalty ==
    (calc.op = "compute_tile_size" /\ calc.done /\ calc.a.total_size > 0 /\ Rejected(calc.a)) =>
        IF Passing(calc.a) = {}
        THEN calc.exc = "ValueError"
        ELSE calc.exc = NoExc /\ calc.ret = Best(calc.a)

\* ------------------------------------------------------------- array claims
\* C27 as claimed: in a pyramid built by create_from_array with the layout
\* derived by compute_layout, every level z has zoom 2^(num_levels - z - 1)
\* and size source_dims // zoom, and for every tile inside the level's grid
\* the strided slice of compute_tile has exactly tile_width by tile_height
\* elements, so the assertion on the tile size never fails.
C27_ArrayTilesHaveTileSize ==
    (calc.op = "create_from_array" /\ calc.tile_size = NoSize /\ calc.done /\ calc.exc = NoExc) =>
        /\ \A z \in DOMAIN pyramid :
              LET level == images[pyramid[z]]
                  zoom == Pow2(Len(pyramid) - z)
              IN  /\ level.zoom = zoom
                  /\ level.size = <<calc.size[1] \div zoom, calc.size[2] \div zoom>>
        /\ last.op = "compute_tile" =>
              /\ last.exc = NoExc
              /\ last.shape = images[last.img].tile_size

\* ------------------------------------------------------------- item claims
\* the key-to-item map and the item list of cache c hold the same items,
\* every item under its own key, one item per key
SameItems(c) ==
    LET d == cache[c].item_dict
        list == cache[c].item_list
    IN  /\ Len(list) = Cardinality(DOMAIN d)
        /\ \A k \in DOMAIN d : d[k].key = k /\ \E i \in DOMAIN list : list[i] = d[k]
        /\ \A i \in DOMAIN list : list[i].key \in DOMAIN d /\ d[list[i].key] = list[i]
        /\ \A i, j \in DOMAIN list : list[i].key = list[j].key => i = j

\* C28: after every completed cache operation the key-to-item map and the
\* item list of a cache hold exactly the same items, every resident item's
\* key field is the key it is stored under and no key has more than one
\* item; put_value on a key that is resident replaces its item, and the
\* size counts the new stored size only.
C28_OneItemPerKey ==
    /\ [](\A c \in CacheIds : SameItems(c))
    /\ [][\A c \in CacheIds, k \in Keys, v \in Values :
            (IsCall(last', "put_value", c, k) /\ last'.value = v /\ k \in DOMAIN cache[c].item_dict) =>
                /\ k \in DOMAIN cache'[c].item_dict
                /\ cache'[c].item_dict[k] =
                       item_store(NewItem, cfg[c].store, k, v, clock)
                /\ cache'[c].size =
                       SumSizes(cache'[c].item_dict, DOMAIN cache'[c].item_dict)
                /\ cache'[c].size <=
                       cache[c].size - cache[c].item_dict[k].stored_size
                           + cache'[c].item_dict[k].stored_size
        ]_vars

\* a key was put twice on the parentless cache and nothing else was done:
\* the second put replaced the item
C28_Witness ==
    /\ last.op = "put_value" /\ last.c = "P"
    /\ cfg["P"].store = "MemoryCacheStore" /\ cfg["P"].threshold = ThresholdDen
    /\ Resident("P") = {last.key} /\ Resident("C") = {}
    /\ cache["P"].item_dict[last.key].access_time = 2
    /\ cache["P"].size = 1

\* ------------------------------------------------------------- lock claims
\* the positions from which the next step of thread t starts by acquiring
\* the lock of its cache: a new call, the eviction loop of trim, and the
\* get_value and remove_value of the loop of clear
AtAcquire(t) == thread[t].pc \in {"idle", "trim_evict", "clear_get", "clear_remove"}

\* thread t cannot take its next step: another thread owns the lock
Blocked(t) == AtAcquire(t) /\ ~Acquirable(t, thread[t].c)

\* the lock of cache c is owned by a thread that is in no call, so that no
\* release of it is pending
Abandoned(c) == lock[c].count > 0 /\ ~InCall(lock[c].owner)

\* C29 as claimed: with store operations that do not fail, no call waits
\* for a lock that nobody is going to release, and a thread that owns the
\* parent's lock between two steps is one that calls the parent directly,
\* which never requests the child's lock.
C29_NoCallBlockedForever ==
    /\ \A t \in Threads : ~(Blocked(t) /\ Abandoned(thread[t].c))
    /\ \A t \in Threads : (lock["P"].count > 0 /\ lock["P"].owner = t) => thread[t].c = "P"

\* C30 as claimed: when a call ends, by returning or by raising, its thread
\* has released the lock of the cache as many times as it acquired it.
C30_LockReleasedWhenCallEnds ==
    (last.t \in Threads /\ last.ended) =>
        ~(lock[last.c].count > 0 /\ lock[last.c].owner = last.t)

\* ------------------------------------------------------------- level claims
\* floor(log2(x)) for x >= 1
RECURSIVE FloorLog2(_)
FloorLog2(x) == IF x <= 1 THEN 0 ELSE 1 + FloorLog2(x \div 2)

\* the candidates of the search of call a that reach the level test
LevelTested(a) ==
    {ts \in Candidates(a) : ~(a.int_div /\ a.total_size % ts # 0)}

\* the call went into the search with num_levels_min given
LevelSearch ==
    /\ calc.op = "compute_tile_size" /\ calc.done
    /\ calc.a.num_levels_min # Absent /\ Rejected(calc.a)

\* C32 as claimed: in the search of compute_tile_size with num_levels_min
\* given, the level computation returns for every total_size >= 0, and a
\* candidate ts is skipped by the level test exactly when
\* floor(log2(num_tiles * ts)) < num_levels_min, num_tiles being
\* ceil(total_size / ts).
C32_SkippedBelowFloorLog2 ==
    LevelSearch =>
        /\ calc.exc # "no return"
        /\ calc.a.total_size > 0 =>
              \A ts \in LevelTested(calc.a) :
                  skip_num_levels(calc.a.total_size, ts, calc.a.num_levels_min)
                      <=> FloorLog2(Ceil(calc.a.total_size, ts) * ts) < calc.a.num_levels_min

\* ------------------------------------------------------------- tile thread claims
\* threads t and u called get_tile for the same tile of one image, a tile of
\* its grid that no cache held, and the two calls ran at the same time
Concurrent(t, u) ==
    /\ t # u
    /\ thread[t].calls > 0 /\ thread[u].calls > 0
    /\ thread[t].call = thread[u].call
    /\ u \in thread[t].with /\ t \in thread[u].with
    /\ thread[t].fresh
    /\ InGrid(images[thread[t].call[1]], thread[t].call[2], thread[t].call[3])

\* cache c holds one item for tile_id, its parent none, and the size of c
\* is the sum of the stored sizes of its items
HeldOnce(c, tile_id) ==
    /\ tile_id \in Resident(c)
    /\ Cardinality({n \in DOMAIN cache[c].item_list : cache[c].item_list[n].key = tile_id}) = 1
    /\ \A d \in Chain(c) \ {c} : tile_id \notin Resident(d)
    /\ cache[c].size = ResidentSize(c)

\* C31 as claimed: when two threads call get_tile(x, y) at the same time for
\* the same uncached tile of one OpImage, neither call fails, both return a
\* tile, and once both have returned the cache holds exactly one item for
\* the tile id and its size counts that tile once.
C31_ConcurrentGetTile ==
    \A t, u \in Threads :
        Concurrent(t, u) =>
            /\ thread[t].pc # "raised"
            /\ (thread[t].pc = "idle" /\ thread[u].pc = "idle") =>
                  /\ thread[t].ret # None /\ thread[u].ret # None
                  /\ HeldOnce(images[thread[t].call[1]].tile_cache, TileId(thread[t].call))

====
